---- MODULE Spec2Model ----
(***************************************************************************)
(* ThreadShell job scheduler (src/src/scheduler.cpp, src/include/job.h,    *)
(* scheduler.h and logger.cpp) as a state machine.                         *)
(*                                                                         *)
(* A JobPtr (shared_ptr<JobMetadata>) is the index of the record in        *)
(* all_jobs_: every record is pushed to all_jobs_ exactly once, by the     *)
(* submission that creates it, and never removed.  job_id is a field of    *)
(* the record, assigned from next_job_id_.                                 *)
(*                                                                         *)
(* Every critical section of the scheduler mutex is one action, except     *)
(* suspend_job and resume_job, whose read of job->status and write of      *)
(* job->status are two steps: execute_job writes job->status without the   *)
(* mutex, so such a write can fall between them.                           *)
(***************************************************************************)
EXTENDS Integers, Sequences, FiniteSets, TLC

\* ---------------------------------------------------------------- bounds
NumCores == 2
MaxJobs == 3
MaxDeps == 2
\* what the front end does in one run: every successful kill, suspend, resume or
\* priority change takes one unit, and so does submitting with dependencies
MaxControlCalls == 2
\* jobs submitted in a run of SpecDispatch (at least MaxJobs)
MaxDispatchJobs == 4
\* the capacity of the completed set, max_completed of cleanup_completed_jobs
\* (1000 in the code), scaled down so that a run can fill it
max_completed == 2

\* ------------------------------------------------------ program constants
LOW == 0
MEDIUM == 1
HIGH == 2
CRITICAL == 3
FirstJobId == 1
NoCore == -1
NoArray == -1
max_memory_mb == 1024

JobPriority == {LOW, MEDIUM, HIGH, CRITICAL}
JobStatus == {"PENDING", "RUNNING", "COMPLETED", "FAILED", "KILLED",
              "SUSPENDED", "WAITING_DEPS"}
JobType == {"INTERACTIVE", "BATCH", "ARRAY_JOB"}
SchedulingPolicy == {"PRIORITY_FIRST", "SHORTEST_JOB_FIRST", "ROUND_ROBIN",
                     "FAIR_SHARE"}

\* inputs of the control API
Commands == {"true"}
SubmitPriorities == {MEDIUM}
NewPriorities == {CRITICAL}
NewMaxConcurrent == {1}
JobIds == FirstJobId .. (FirstJobId + MaxJobs - 1)
AllJobIds == FirstJobId .. (FirstJobId + MaxDispatchJobs - 1)
\* the submissions of SpecDispatch: <<command, priority>>
DispatchInputs == {<<"true", LOW>>, <<"sleep 60", LOW>>, <<"true", CRITICAL>>}
NewPolicies == {"SHORTEST_JOB_FIRST"}
DepIds == FirstJobId .. (FirstJobId + MaxDeps - 1)
DepSets == SUBSET DepIds
ExitKinds == {"exit_zero", "exit_nonzero", "signaled"}

Workers == 1 .. NumCores
Cores == 0 .. (NumCores - 1)

VARIABLES
    running_,             \* std::atomic<bool> running_
    next_job_id_,         \* std::atomic<int> next_job_id_
    all_jobs_,            \* std::vector<JobPtr>: the records themselves
    job_queue_,           \* the priority_queue's underlying vector (a binary heap)
    active_jobs_,         \* std::vector<JobPtr>
    completed_jobs_,      \* std::vector<JobPtr>
    core_availability_,   \* std::vector<bool>
    max_concurrent_jobs_, \* std::atomic<size_t>
    current_policy_,      \* SchedulingPolicy current_policy_
    stats_,               \* SystemStats counters
    log_file_,            \* records appended by Logger::write_log_entry
    worker_pc,            \* position of each worker thread
    worker_job,           \* the local JobPtr job of worker_function (0: null)
    api_pc,               \* a control-API thread inside suspend_job / resume_job
    control_calls         \* kill / suspend / resume / change_priority calls that returned true

vars == <<running_, next_job_id_, all_jobs_, job_queue_, active_jobs_,
          completed_jobs_, core_availability_, max_concurrent_jobs_,
          current_policy_, stats_, log_file_, worker_pc, worker_job, api_pc,
          control_calls>>

\* ------------------------------------------------------------- helpers
ApiIdle == [op |-> "idle", job |-> 0]

\* The scheduler mutex is held across steps only by suspend_job / resume_job;
\* every other position of a caller lies between two critical sections.
mutex_locked == api_pc.op \in {"suspend_job", "resume_job"}

Range(s) == {s[i] : i \in 1 .. Len(s)}

\* std::find_if over a vector of JobPtr by job_id: the position of the first
\* match in the vector, 0 for end().
find_if(vec, id) ==
    LET hits == {i \in 1 .. Len(vec) : all_jobs_[vec[i]].job_id = id}
    IN IF hits = {} THEN 0 ELSE CHOOSE i \in hits : \A j \in hits : i <= j

\* std::find over a vector of JobPtr by pointer.
find(vec, job) ==
    LET hits == {i \in 1 .. Len(vec) : vec[i] = job}
    IN IF hits = {} THEN 0 ELSE CHOOSE i \in hits : \A j \in hits : i <= j

erase(vec, pos) == SubSeq(vec, 1, pos - 1) \o SubSeq(vec, pos + 1, Len(vec))

JobMetadata(id, cmd, p) ==
    [job_id |-> id, command |-> cmd, priority |-> p, status |-> "PENDING",
     type |-> "INTERACTIVE", dependencies |-> {}, assigned_core_id |-> NoCore,
     memory_usage_mb |-> 0, array_job_id |-> NoArray, array_task_id |-> NoArray,
     job_name |-> "", limits |-> [max_memory_mb |-> max_memory_mb],
     dependents |-> {}]

\* mutant: a single COMPLETED dependency is taken for all of them
dependencies_satisfied_any(job, jobs) ==
    \/ job.dependencies = {}
    \/ \E dep_id \in job.dependencies :
          \E i \in 1 .. Len(jobs) :
              jobs[i].job_id = dep_id /\ jobs[i].status = "COMPLETED"

\* mutant: a dependency that has no record is taken as satisfied
dependencies_satisfied_missing_ok(job, jobs) ==
    \A dep_id \in job.dependencies :
        \A i \in 1 .. Len(jobs) :
            jobs[i].job_id = dep_id => jobs[i].status = "COMPLETED"

\* JobMetadata::dependencies_satisfied(all_jobs)
dependencies_satisfied(job, jobs) ==
    \A dep_id \in job.dependencies :
        LET hits == {i \in 1 .. Len(jobs) : jobs[i].job_id = dep_id}
        IN /\ hits # {}
           /\ jobs[CHOOSE i \in hits : \A j \in hits : i <= j].status = "COMPLETED"

\* JobMetadata::get_estimated_runtime, in seconds, for the commands submitted
\* here: "sleep 60" matches sleep\s+(\d+) and gives 60; "true" matches no
\* pattern and gives 5 + length / 20 = 5.
get_estimated_runtime(job) ==
    CASE job.command = "sleep 60" -> 60
      [] job.command = "true" -> 5 + 4 \div 20

\* minutes between submit_time and now: every run here lasts less than a minute
wait_minutes(job) == 0

\* JobMetadata::calculate_priority_score, in units of 1/10000:
\* 0.1 * 1 / (1 + runtime / 60) is 6 / (60 + runtime)
calculate_priority_score(job) ==
    job.priority * 10000
    + 60000 \div (60 + get_estimated_runtime(job))
    + wait_minutes(job) * 100
    - (IF job.status = "WAITING_DEPS" THEN 10000 ELSE 0)
    + (IF job.type = "INTERACTIVE" THEN 2000 ELSE 0)
    + (IF job.priority = CRITICAL THEN 20000 ELSE 0)

\* mutant: the comparison of JobCompare turned around
JobCompare_reversed(a, b) == a.priority > b.priority

\* JobScheduler::JobCompare, on two records
JobCompare(a, b) == a.priority < b.priority

\* Logger::write_log_entry appends one record to the file under the writer
\* mutex.  log_file_[id] is the file's records whose JobID column is id, as
\* their Event column, in file order.
write_log_entry(log, job, event) ==
    [log EXCEPT ![job.job_id] = Append(@, event)]

\* ------------------------------------------------- std::priority_queue
\* job_queue_ is std::priority_queue<JobPtr, std::vector<JobPtr>, JobCompare>:
\* push is push_back + std::push_heap, pop is std::pop_heap + pop_back, top is
\* front().  Positions are 0-based as in the library; h[i + 1] is first[i].
RECURSIVE push_heap_sift(_, _, _, _, _)
push_heap_sift(h, holeIndex, topIndex, value, jobs) ==
    LET parent == (holeIndex - 1) \div 2
    IN IF holeIndex > topIndex /\ JobCompare(jobs[h[parent + 1]], jobs[value])
       THEN push_heap_sift([h EXCEPT ![holeIndex + 1] = h[parent + 1]],
                           parent, topIndex, value, jobs)
       ELSE [h EXCEPT ![holeIndex + 1] = value]

RECURSIVE adjust_heap_loop(_, _, _, _)
adjust_heap_loop(h, holeIndex, len, jobs) ==
    IF holeIndex < (len - 1) \div 2
    THEN LET right == 2 * (holeIndex + 1)
             secondChild == IF JobCompare(jobs[h[right + 1]], jobs[h[right]])
                            THEN right - 1 ELSE right
         IN adjust_heap_loop([h EXCEPT ![holeIndex + 1] = h[secondChild + 1]],
                             secondChild, len, jobs)
    ELSE <<h, holeIndex>>

adjust_heap(h, len, value, jobs) ==
    LET after == adjust_heap_loop(h, 0, len, jobs)
        h1 == after[1]
        hole1 == after[2]
        lastChild == len % 2 = 0 /\ hole1 = (len - 2) \div 2
        h2 == IF lastChild THEN [h1 EXCEPT ![hole1 + 1] = h1[2 * (hole1 + 1)]] ELSE h1
        hole2 == IF lastChild THEN 2 * (hole1 + 1) - 1 ELSE hole1
    IN push_heap_sift(h2, hole2, 0, value, jobs)

queue_push(h, job, jobs) == push_heap_sift(Append(h, job), Len(h), 0, job, jobs)

queue_top(h) == h[1]

queue_pop(h, jobs) ==
    IF Len(h) > 1
    THEN LET n == Len(h)
             moved == [h EXCEPT ![n] = h[1]]
         IN SubSeq(adjust_heap(moved, n - 1, h[n], jobs), 1, n - 1)
    ELSE <<>>

\* the control calls this run may still make
uses_dependencies == \E i \in 1 .. Len(all_jobs_) : all_jobs_[i].dependencies # {}
control_budget == IF uses_dependencies THEN MaxControlCalls - 1 ELSE MaxControlCalls

\* ------------------------------------------------------------- Init
Init ==
    /\ running_ = FALSE
    /\ next_job_id_ = FirstJobId
    /\ all_jobs_ = <<>>
    /\ job_queue_ = <<>>
    /\ active_jobs_ = <<>>
    /\ completed_jobs_ = <<>>
    /\ core_availability_ = [c \in Cores |-> TRUE]
    /\ max_concurrent_jobs_ = NumCores * 2
    /\ current_policy_ = "PRIORITY_FIRST"
    /\ stats_ = [total_jobs_submitted |-> 0, total_jobs_completed |-> 0,
                 total_jobs_failed |-> 0, total_jobs_killed |-> 0,
                 current_memory_usage_mb |-> 0]
    /\ log_file_ = [id \in AllJobIds |-> <<>>]
    /\ worker_pc = [w \in Workers |-> "not_started"]
    /\ worker_job = [w \in Workers |-> 0]
    /\ api_pc = ApiIdle
    /\ control_calls = 0

\* ------------------------------------------------------ control API
\* JobScheduler::start
start ==
    /\ ~running_
    /\ \A w \in Workers : worker_pc[w] = "not_started"
    /\ running_' = TRUE
    /\ worker_pc' = [w \in Workers |-> "wait"]
    /\ UNCHANGED <<current_policy_, control_calls, next_job_id_, all_jobs_, job_queue_, active_jobs_,
                   completed_jobs_, core_availability_, max_concurrent_jobs_,
                   stats_, log_file_, worker_job, api_pc>>

\* mutant: the increment of next_job_id_ is lost
post_increment_lost(n) == n

\* next_job_id_++: the value next_job_id_ holds after the call
post_increment(n) == n + 1

\* JobScheduler::submit_job, the critical section
submit_job_locked(command, priority) ==
    /\ ~mutex_locked
    /\ LET job == JobMetadata(next_job_id_, command, priority)
           ptr == Len(all_jobs_) + 1
           jobs == Append(all_jobs_, job)
       IN /\ next_job_id_' = post_increment(next_job_id_)
          /\ job_queue_' = queue_push(job_queue_, ptr, jobs)
          /\ all_jobs_' = jobs
          /\ stats_' = [stats_ EXCEPT !.total_jobs_submitted = @ + 1]
          /\ log_file_' = write_log_entry(log_file_, job, "SUBMITTED")
    /\ UNCHANGED <<current_policy_, control_calls, running_, active_jobs_, completed_jobs_, core_availability_,
                   max_concurrent_jobs_>>

\* JobScheduler::submit_job where a worker's wait on condition_ is the guard of
\* worker_dequeue: a waiting worker goes on as soon as the predicate of its
\* wait holds, so that condition_.notify_one() changes nothing
submit_job(command, priority) ==
    /\ submit_job_locked(command, priority)
    /\ UNCHANGED <<worker_pc, worker_job, api_pc>>

\* JobScheduler::submit_job_with_deps, the critical section
submit_job_with_deps_locked(command, dependencies, priority) ==
    /\ ~mutex_locked
    /\ dependencies # {} => control_calls < MaxControlCalls
    /\ LET created == [JobMetadata(next_job_id_, command, priority)
                          EXCEPT !.dependencies = dependencies]
           satisfied == dependencies_satisfied(created, all_jobs_)
           job == IF satisfied THEN created
                  ELSE [created EXCEPT !.status = "WAITING_DEPS"]
           ptr == Len(all_jobs_) + 1
           jobs == Append(all_jobs_, job)
       IN /\ next_job_id_' = post_increment(next_job_id_)
          /\ job_queue_' = IF satisfied THEN queue_push(job_queue_, ptr, jobs)
                           ELSE job_queue_
          /\ all_jobs_' = jobs
          /\ stats_' = [stats_ EXCEPT !.total_jobs_submitted = @ + 1]
          /\ log_file_' = write_log_entry(log_file_, job, "SUBMITTED")
    /\ UNCHANGED <<current_policy_, control_calls, running_, active_jobs_, completed_jobs_, core_availability_,
                   max_concurrent_jobs_>>

\* JobScheduler::submit_job_with_deps (the wait of the workers is a guard, as
\* for submit_job)
submit_job_with_deps(command, dependencies, priority) ==
    /\ submit_job_with_deps_locked(command, dependencies, priority)
    /\ UNCHANGED <<worker_pc, worker_job, api_pc>>

\* JobScheduler::kill_job, the value returned
kill_job_returns(job_id) == find_if(active_jobs_, job_id) # 0

\* JobScheduler::kill_job
kill_job(job_id) ==
    /\ ~mutex_locked
    /\ LET it == find_if(active_jobs_, job_id)
       IN IF it # 0
          THEN /\ control_calls < control_budget
               /\ control_calls' = control_calls + 1
               /\ all_jobs_' = [all_jobs_ EXCEPT ![active_jobs_[it]].status = "KILLED"]
               /\ stats_' = [stats_ EXCEPT !.total_jobs_killed = @ + 1]
               /\ log_file_' = write_log_entry(log_file_,
                                   all_jobs_[active_jobs_[it]], "KILLED")
          ELSE UNCHANGED <<all_jobs_, stats_, log_file_, control_calls>>
    /\ UNCHANGED <<current_policy_, worker_pc, worker_job, running_, next_job_id_, job_queue_,
                   active_jobs_, completed_jobs_, core_availability_,
                   max_concurrent_jobs_, api_pc>>

\* mutant: suspend_job without the test of job->status
suspend_job_returns_any_status(job_id) == find_if(active_jobs_, job_id) # 0

\* JobScheduler::suspend_job, the value returned
suspend_job_returns(job_id) ==
    LET it == find_if(active_jobs_, job_id)
    IN it # 0 /\ all_jobs_[active_jobs_[it]].status = "RUNNING"

\* JobScheduler::suspend_job, to the test of job->status: the mutex is taken;
\* when the test fails the call returns false and the mutex is released
suspend_job_check(job_id) ==
    /\ ~mutex_locked
    /\ IF suspend_job_returns(job_id)
       THEN /\ control_calls < control_budget
            /\ control_calls' = control_calls + 1
            /\ api_pc' = [op |-> "suspend_job",
                          job |-> active_jobs_[find_if(active_jobs_, job_id)]]
       ELSE UNCHANGED <<api_pc, control_calls>>
    /\ UNCHANGED <<current_policy_, worker_pc, worker_job, running_, next_job_id_, all_jobs_,
                   job_queue_, active_jobs_, completed_jobs_,
                   core_availability_, max_concurrent_jobs_, stats_, log_file_>>

\* JobScheduler::suspend_job, the write of SUSPENDED; the call returns true
suspend_job_write ==
    /\ api_pc.op = "suspend_job"
    /\ all_jobs_' = [all_jobs_ EXCEPT ![api_pc.job].status = "SUSPENDED"]
    /\ api_pc' = ApiIdle
    /\ UNCHANGED <<current_policy_, control_calls, running_, next_job_id_, job_queue_, active_jobs_,
                   completed_jobs_, core_availability_, max_concurrent_jobs_,
                   stats_, log_file_, worker_pc, worker_job>>

\* JobScheduler::resume_job, the value returned
resume_job_returns(job_id) ==
    LET it == find_if(active_jobs_, job_id)
    IN it # 0 /\ all_jobs_[active_jobs_[it]].status = "SUSPENDED"

\* JobScheduler::resume_job, to the test of job->status
resume_job_check(job_id) ==
    /\ ~mutex_locked
    /\ IF resume_job_returns(job_id)
       THEN /\ control_calls < control_budget
            /\ control_calls' = control_calls + 1
            /\ api_pc' = [op |-> "resume_job",
                          job |-> active_jobs_[find_if(active_jobs_, job_id)]]
       ELSE UNCHANGED <<api_pc, control_calls>>
    /\ UNCHANGED <<current_policy_, worker_pc, worker_job, running_, next_job_id_, all_jobs_,
                   job_queue_, active_jobs_, completed_jobs_,
                   core_availability_, max_concurrent_jobs_, stats_, log_file_>>

\* JobScheduler::resume_job, the write of RUNNING; the call returns true
resume_job_write ==
    /\ api_pc.op = "resume_job"
    /\ all_jobs_' = [all_jobs_ EXCEPT ![api_pc.job].status = "RUNNING"]
    /\ api_pc' = ApiIdle
    /\ UNCHANGED <<current_policy_, control_calls, running_, next_job_id_, job_queue_, active_jobs_,
                   completed_jobs_, core_availability_, max_concurrent_jobs_,
                   stats_, log_file_, worker_pc, worker_job>>

\* all_jobs_ as a vector of JobPtr
all_ptrs == [i \in 1 .. Len(all_jobs_) |-> i]

\* mutant: change_job_priority without the test of job->status
change_job_priority_returns_any_status(job_id) == find_if(all_ptrs, job_id) # 0

\* JobScheduler::change_job_priority, the value returned
change_job_priority_returns(job_id) ==
    LET it == find_if(all_ptrs, job_id)
    IN it # 0 /\ all_jobs_[it].status = "PENDING"

\* JobScheduler::change_job_priority
change_job_priority(job_id, new_priority) ==
    /\ ~mutex_locked
    /\ IF change_job_priority_returns(job_id)
       THEN /\ control_calls < control_budget
            /\ control_calls' = control_calls + 1
            /\ all_jobs_' = [all_jobs_ EXCEPT
                                ![find_if(all_ptrs, job_id)].priority = new_priority]
       ELSE UNCHANGED <<all_jobs_, control_calls>>
    /\ UNCHANGED <<current_policy_, worker_pc, worker_job, running_, next_job_id_, job_queue_,
                   active_jobs_, completed_jobs_, core_availability_,
                   max_concurrent_jobs_, stats_, log_file_, api_pc>>

\* JobScheduler::set_max_concurrent_jobs: a store to the atomic, no mutex
set_max_concurrent_jobs(max_jobs) ==
    /\ IF max_jobs # max_concurrent_jobs_
       THEN /\ control_calls < control_budget
            /\ control_calls' = control_calls + 1
       ELSE UNCHANGED control_calls
    /\ max_concurrent_jobs_' = max_jobs
    /\ UNCHANGED <<current_policy_, worker_pc, worker_job, running_, next_job_id_, all_jobs_,
                   job_queue_, active_jobs_, completed_jobs_,
                   core_availability_, stats_, log_file_, api_pc>>

\* JobScheduler::set_scheduling_policy
set_scheduling_policy(policy) ==
    /\ ~mutex_locked
    /\ current_policy_' = policy
    /\ UNCHANGED <<worker_pc, worker_job, running_, next_job_id_, all_jobs_,
                   job_queue_, active_jobs_, completed_jobs_,
                   core_availability_, max_concurrent_jobs_, stats_, log_file_,
                   api_pc, control_calls>>

\* ------------------------------------------------------ worker threads
\* The worker threads run the same code and nothing the scheduler reads tells
\* one from another, so a state is kept up to the order of the workers: after
\* every step of a worker the pairs <<worker_job, worker_pc>> are put in
\* increasing order (of the job, then of the position).
PcRank == [not_started |-> 1, wait |-> 2, set_running |-> 3, assign_core |-> 4,
           log_started |-> 5, fork |-> 6, log_result |-> 7, release_core |-> 8,
           finish |-> 9, condition_wait |-> 10, blocked |-> 11, waitpid |-> 12,
           exited |-> 13]
WorkerKey(pcs, jobs, w) == (jobs[w] * 16 + PcRank[pcs[w]]) * (NumCores + 1) + w
\* the worker that comes at place k of the order
WorkerAt(pcs, jobs, k) ==
    CHOOSE v \in Workers :
        Cardinality({u \in Workers :
                        WorkerKey(pcs, jobs, u) < WorkerKey(pcs, jobs, v)}) = k - 1

\* worker w moves to position pc holding job
worker_step(w, pc, job) ==
    LET pcs == [worker_pc EXCEPT ![w] = pc]
        jobs == [worker_job EXCEPT ![w] = job]
    IN /\ worker_pc' = [k \in Workers |-> pcs[WorkerAt(pcs, jobs, k)]]
       /\ worker_job' = [k \in Workers |-> jobs[WorkerAt(pcs, jobs, k)]]
\* mutant: assign_core returns the lowest index, free or not
assign_core_lowest == CHOOSE c \in Cores : \A d \in Cores : c <= d

\* mutant: update_job_dependencies does not test the status of the job
promoted_any_status(completed_job) ==
    {i \in 1 .. Len(all_jobs_) :
        /\ all_jobs_[i].dependencies # {}
        /\ all_jobs_[completed_job].job_id \in all_jobs_[i].dependencies
        /\ dependencies_satisfied(all_jobs_[i], all_jobs_)}

\* JobScheduler::assign_core, the value returned
assign_core == IF \E c \in Cores : core_availability_[c]
               THEN CHOOSE c \in Cores :
                        /\ core_availability_[c]
                        /\ \A d \in Cores : core_availability_[d] => c <= d
               ELSE NoCore

\* mutant: the loop of update_job_dependencies stops at the first waiting job
promoted_first_waiting(completed_job) ==
    LET waiting == {i \in 1 .. Len(all_jobs_) : all_jobs_[i].status = "WAITING_DEPS"}
        first == {i \in waiting : \A j \in waiting : i <= j}
    IN {i \in first :
           /\ all_jobs_[completed_job].job_id \in all_jobs_[i].dependencies
           /\ dependencies_satisfied(all_jobs_[i], all_jobs_)}

\* JobScheduler::update_job_dependencies, on the records: every WAITING_DEPS
\* record that lists the completed job and has all dependencies COMPLETED
\* becomes PENDING.  dependencies_satisfied reads only whether a status is
\* COMPLETED, which the loop's own writes of PENDING do not change.
promoted(completed_job) ==
    {i \in 1 .. Len(all_jobs_) :
        /\ all_jobs_[i].status = "WAITING_DEPS"
        /\ all_jobs_[completed_job].job_id \in all_jobs_[i].dependencies
        /\ dependencies_satisfied(all_jobs_[i], all_jobs_)}

\* the pushes of update_job_dependencies, in the order of all_jobs_
RECURSIVE push_promoted(_, _, _, _)
push_promoted(h, i, ready, jobs) ==
    IF i > Len(jobs) THEN h
    ELSE push_promoted(IF i \in ready THEN queue_push(h, i, jobs) ELSE h,
                       i + 1, ready, jobs)

\* worker_function: the wait on condition_ and the dequeue, one critical section
\* (the workers run the same code and hold no identity the scheduler reads: of the
\* workers waiting, the one of lowest index takes the job)
worker_dequeue(w) ==
    /\ worker_pc[w] = "wait"
    /\ \A v \in Workers : v < w => worker_pc[v] # "wait"
    /\ ~mutex_locked
    /\ running_
    /\ job_queue_ # <<>>
    /\ Len(active_jobs_) < max_concurrent_jobs_
    /\ LET job == queue_top(job_queue_)
       IN /\ job_queue_' = queue_pop(job_queue_, all_jobs_)
          /\ active_jobs_' = Append(active_jobs_, job)
          /\ worker_step(w, "set_running", job)
    /\ UNCHANGED <<current_policy_, control_calls, running_, next_job_id_, all_jobs_, completed_jobs_,
                   core_availability_, max_concurrent_jobs_, stats_, log_file_,
                   api_pc>>

\* execute_job: job->status = RUNNING (no mutex)
execute_job_set_running(w) ==
    /\ worker_pc[w] = "set_running"
    /\ all_jobs_' = [all_jobs_ EXCEPT ![worker_job[w]].status = "RUNNING"]
    /\ worker_step(w, "assign_core", worker_job[w])
    /\ UNCHANGED <<current_policy_, control_calls, running_, next_job_id_, job_queue_, active_jobs_,
                   completed_jobs_, core_availability_, max_concurrent_jobs_,
                   stats_, log_file_, api_pc>>

\* execute_job: job->assigned_core_id = assign_core() (takes the mutex)
execute_job_assign_core(w) ==
    /\ worker_pc[w] = "assign_core"
    /\ ~mutex_locked
    /\ all_jobs_' = [all_jobs_ EXCEPT ![worker_job[w]].assigned_core_id = assign_core]
    /\ core_availability_' = IF assign_core = NoCore THEN core_availability_
                             ELSE [core_availability_ EXCEPT ![assign_core] = FALSE]
    /\ worker_step(w, "log_started", worker_job[w])
    /\ UNCHANGED <<current_policy_, control_calls, running_, next_job_id_, job_queue_, active_jobs_,
                   completed_jobs_, max_concurrent_jobs_, stats_, log_file_,
                   api_pc>>

\* JobScheduler::simulate_memory_usage, the value written to memory_usage_mb
\* (no command submitted here contains "make")
simulate_memory_usage(job) ==
    LET base_memory == 10 + Len(job.command) \div 10
    IN IF base_memory < job.limits.max_memory_mb THEN base_memory
       ELSE job.limits.max_memory_mb

\* execute_job: simulate_memory_usage(job) and
\* Logger::instance().log_job_started(job), neither under the scheduler mutex
execute_job_log_started(w) ==
    /\ worker_pc[w] = "log_started"
    /\ all_jobs_' = [all_jobs_ EXCEPT ![worker_job[w]].memory_usage_mb =
                        simulate_memory_usage(all_jobs_[worker_job[w]])]
    /\ log_file_' = write_log_entry(log_file_, all_jobs_[worker_job[w]], "STARTED")
    /\ worker_step(w, "fork", worker_job[w])
    /\ UNCHANGED <<current_policy_, control_calls, running_, next_job_id_, job_queue_, active_jobs_,
                   completed_jobs_, core_availability_, max_concurrent_jobs_,
                   stats_, api_pc>>

\* execute_job: fork() fails: job->status = FAILED.  The log_job_failed that
\* follows is what execute_job_log_result writes for a status other than
\* COMPLETED, and no write of COMPLETED can reach this job any more.
execute_job_fork_failed(w) ==
    /\ worker_pc[w] = "fork"
    /\ all_jobs_' = [all_jobs_ EXCEPT ![worker_job[w]].status = "FAILED"]
    /\ worker_step(w, "log_result", worker_job[w])
    /\ UNCHANGED <<current_policy_, control_calls, running_, next_job_id_, job_queue_, active_jobs_,
                   completed_jobs_, core_availability_, max_concurrent_jobs_,
                   stats_, log_file_, api_pc>>

\* execute_job: fork() returns the child's pid, waitpid returns once the child
\* has ended, and job->status is written from the wait status.  Nothing the
\* scheduler reads changes between the fork and the return of waitpid.
execute_job_waitpid(w, exit_kind) ==
    /\ worker_pc[w] = "fork"
    /\ all_jobs_' = [all_jobs_ EXCEPT ![worker_job[w]].status =
                        IF exit_kind = "exit_zero" THEN "COMPLETED" ELSE "FAILED"]
    /\ worker_step(w, "log_result", worker_job[w])
    /\ UNCHANGED <<current_policy_, control_calls, running_, next_job_id_, job_queue_, active_jobs_,
                   completed_jobs_, core_availability_, max_concurrent_jobs_,
                   stats_, log_file_, api_pc>>

\* execute_job: log_job_completed or log_job_failed, by the status read back
execute_job_log_result(w) ==
    /\ worker_pc[w] = "log_result"
    /\ log_file_' = write_log_entry(log_file_, all_jobs_[worker_job[w]],
                        IF all_jobs_[worker_job[w]].status = "COMPLETED"
                        THEN "COMPLETED" ELSE "FAILED")
    /\ worker_step(w, "release_core", worker_job[w])
    /\ UNCHANGED <<current_policy_, control_calls, running_, next_job_id_, all_jobs_, job_queue_, active_jobs_,
                   completed_jobs_, core_availability_, max_concurrent_jobs_,
                   stats_, api_pc>>

\* execute_job: release_core(job->assigned_core_id); the mutex is taken only
\* for a core id in range
release_core(w) ==
    /\ worker_pc[w] = "release_core"
    /\ LET core_id == all_jobs_[worker_job[w]].assigned_core_id
       IN IF core_id >= 0 /\ core_id < NumCores
          THEN /\ ~mutex_locked
               /\ core_availability_' = [core_availability_ EXCEPT ![core_id] = TRUE]
          ELSE core_availability_' = core_availability_
    /\ worker_step(w, "finish", worker_job[w])
    /\ UNCHANGED <<current_policy_, control_calls, running_, next_job_id_, all_jobs_, job_queue_, active_jobs_,
                   completed_jobs_, max_concurrent_jobs_, stats_, log_file_,
                   api_pc>>

\* worker_function: the critical section after execute_job
worker_finish(w) ==
    /\ worker_pc[w] = "finish"
    /\ ~mutex_locked
    /\ LET job == worker_job[w]
           it == find(active_jobs_, job)
           status == all_jobs_[job].status
           terminal == status \in {"COMPLETED", "FAILED", "KILLED"}
           ready == promoted(job)
           jobs == [i \in 1 .. Len(all_jobs_) |->
                       IF i \in ready THEN [all_jobs_[i] EXCEPT !.status = "PENDING"]
                       ELSE all_jobs_[i]]
       IN IF it # 0
          THEN /\ active_jobs_' = erase(active_jobs_, it)
               /\ IF terminal
                  THEN /\ completed_jobs_' = Append(completed_jobs_, job)
                       /\ stats_' =
                            IF status = "COMPLETED"
                            THEN [stats_ EXCEPT !.total_jobs_completed = @ + 1]
                            ELSE IF status = "FAILED"
                            THEN [stats_ EXCEPT !.total_jobs_failed = @ + 1]
                            ELSE stats_
                       /\ all_jobs_' = jobs
                       /\ job_queue_' = push_promoted(job_queue_, 1, ready, jobs)
                  ELSE UNCHANGED <<completed_jobs_, stats_, all_jobs_, job_queue_>>
          ELSE UNCHANGED <<active_jobs_, completed_jobs_, stats_, all_jobs_,
                           job_queue_>>
    /\ worker_step(w, "wait", 0)
    /\ UNCHANGED <<current_policy_, control_calls, running_, next_job_id_, core_availability_,
                   max_concurrent_jobs_, log_file_, api_pc>>

\* ------------------------------------------------------------- Next
Next ==
    \/ start
    \/ \E c \in Commands, p \in SubmitPriorities :
           Len(all_jobs_) < MaxJobs /\ submit_job(c, p)
    \/ \E c \in Commands, d \in DepSets, p \in SubmitPriorities :
           Len(all_jobs_) < MaxJobs /\ submit_job_with_deps(c, d, p)
    \/ \E id \in JobIds : kill_job(id)
    \/ \E id \in JobIds : suspend_job_check(id)
    \/ suspend_job_write
    \/ \E id \in JobIds : resume_job_check(id)
    \/ resume_job_write
    \/ \E id \in JobIds, p \in NewPriorities : change_job_priority(id, p)
    \/ \E n \in NewMaxConcurrent : set_max_concurrent_jobs(n)
    \/ \E w \in Workers : worker_dequeue(w)
    \/ \E w \in Workers : execute_job_set_running(w)
    \/ \E w \in Workers : execute_job_assign_core(w)
    \/ \E w \in Workers : execute_job_log_started(w)
    \/ \E w \in Workers : execute_job_fork_failed(w)
    \/ \E w \in Workers, k \in ExitKinds : execute_job_waitpid(w, k)
    \/ \E w \in Workers : execute_job_log_result(w)
    \/ \E w \in Workers : release_core(w)
    \/ \E w \in Workers : worker_finish(w)

Spec == Init /\ [][Next]_vars

\* Dispatch order: submissions of several commands and priorities, a change of
\* the scheduling policy and the workers, whose jobs all end with exit code 0;
\* no other control call.
NextDispatch ==
    \/ start
    \/ \E in \in DispatchInputs :
           Len(all_jobs_) < MaxDispatchJobs /\ submit_job(in[1], in[2])
    \/ \E policy \in NewPolicies : set_scheduling_policy(policy)
    \/ \E w \in Workers : worker_dequeue(w)
    \/ \E w \in Workers : execute_job_set_running(w)
    \/ \E w \in Workers : execute_job_assign_core(w)
    \/ \E w \in Workers : execute_job_log_started(w)
    \/ \E w \in Workers : execute_job_waitpid(w, "exit_zero")
    \/ \E w \in Workers : execute_job_log_result(w)
    \/ \E w \in Workers : release_core(w)
    \/ \E w \in Workers : worker_finish(w)

SpecDispatch == Init /\ [][NextDispatch]_vars

\* ---------------------------------------------- stop and condition_
\* Here the wait on condition_ is modelled by its steps.  A worker at "wait" is
\* at the test of while (running_); at "condition_wait" it is about to take
\* the mutex and evaluate the predicate of condition_.wait; at "blocked" it
\* has released the mutex inside condition_.wait and runs again only once
\* notified (or woken spuriously); at "waitpid" its child runs; at "exited" it
\* has returned from worker_function.
MaxStopJobs == 2
StopExitKinds == {"exit_zero", "exit_nonzero"}

\* the workers get positions pcs and jobs, kept in the order of the workers
workers_become(pcs, jobs) ==
    /\ worker_pc' = [k \in Workers |-> pcs[WorkerAt(pcs, jobs, k)]]
    /\ worker_job' = [k \in Workers |-> jobs[WorkerAt(pcs, jobs, k)]]

\* mutant: notify_one wakes no thread
notify_none(pcs) == pcs

\* condition_.notify_one(): one of the threads blocked in the wait runs again
\* (which one is not specified; the blocked workers are all alike)
notify_one(pcs) ==
    LET blocked == {w \in Workers : pcs[w] = "blocked"}
    IN IF blocked = {} THEN pcs
       ELSE [pcs EXCEPT ![CHOOSE w \in blocked : \A v \in blocked : w <= v] =
                            "condition_wait"]

\* mutant: notify_all wakes a single thread
notify_all_wakes_one(pcs) == notify_one(pcs)

\* condition_.notify_all(): every thread blocked in the wait runs again
notify_all(pcs) ==
    [w \in Workers |-> IF pcs[w] = "blocked" THEN "condition_wait" ELSE pcs[w]]

\* JobScheduler::submit_job with its condition_.notify_one(), called by the
\* front-end thread
submit_job_notify(command, priority) ==
    /\ api_pc = ApiIdle
    /\ submit_job_locked(command, priority)
    /\ workers_become(notify_one(worker_pc), worker_job)
    /\ UNCHANGED api_pc

\* JobScheduler::stop: running_ = false under the mutex.  The front end calls
\* stop once, from ~Shell, after the start() of the constructor.
stop_set_running ==
    /\ api_pc = ApiIdle
    /\ \A w \in Workers : worker_pc[w] # "not_started"
    /\ ~mutex_locked
    /\ running_' = FALSE
    /\ api_pc' = [op |-> "stop_notify_all", job |-> 0]
    /\ UNCHANGED <<next_job_id_, all_jobs_, job_queue_, active_jobs_,
                   completed_jobs_, core_availability_, max_concurrent_jobs_,
                   current_policy_, stats_, log_file_, worker_pc, worker_job,
                   control_calls>>

\* JobScheduler::stop: condition_.notify_all()
stop_notify_all ==
    /\ api_pc.op = "stop_notify_all"
    /\ workers_become(notify_all(worker_pc), worker_job)
    /\ api_pc' = [op |-> "stop_join", job |-> 0]
    /\ UNCHANGED <<running_, next_job_id_, all_jobs_, job_queue_, active_jobs_,
                   completed_jobs_, core_availability_, max_concurrent_jobs_,
                   current_policy_, stats_, log_file_, control_calls>>

\* JobScheduler::stop: the joins return once every worker has exited
stop_join ==
    /\ api_pc.op = "stop_join"
    /\ \A w \in Workers : worker_pc[w] = "exited"
    /\ api_pc' = [op |-> "stop_clear", job |-> 0]
    /\ UNCHANGED <<running_, next_job_id_, all_jobs_, job_queue_, active_jobs_,
                   completed_jobs_, core_availability_, max_concurrent_jobs_,
                   current_policy_, stats_, log_file_, worker_pc, worker_job,
                   control_calls>>

\* JobScheduler::stop: SIGTERM to the processes of the jobs still active (a
\* signal changes no field of the scheduler), active_jobs_.clear(), return
stop_clear ==
    /\ api_pc.op = "stop_clear"
    /\ ~mutex_locked
    /\ active_jobs_' = <<>>
    /\ api_pc' = [op |-> "stop_returned", job |-> 0]
    /\ UNCHANGED <<running_, next_job_id_, all_jobs_, job_queue_,
                   completed_jobs_, core_availability_, max_concurrent_jobs_,
                   current_policy_, stats_, log_file_, worker_pc, worker_job,
                   control_calls>>

\* worker_function: the test of while (running_), without the mutex
worker_while(w) ==
    /\ worker_pc[w] = "wait"
    /\ worker_step(w, IF running_ THEN "condition_wait" ELSE "exited", 0)
    /\ UNCHANGED <<running_, next_job_id_, all_jobs_, job_queue_, active_jobs_,
                   completed_jobs_, core_availability_, max_concurrent_jobs_,
                   current_policy_, stats_, log_file_, api_pc, control_calls>>

\* worker_function: the critical section of condition_.wait and the dequeue.
\* With the predicate false the worker releases the mutex and blocks; with
\* running_ false it returns; else it takes the top of the queue if the
\* active set has room, and goes round the loop with no job if not.
worker_condition_wait(w) ==
    /\ worker_pc[w] = "condition_wait"
    /\ ~mutex_locked
    /\ IF ~(~running_ \/ job_queue_ # <<>>)
       THEN /\ worker_step(w, "blocked", 0)
            /\ UNCHANGED <<job_queue_, active_jobs_>>
       ELSE IF ~running_
       THEN /\ worker_step(w, "exited", 0)
            /\ UNCHANGED <<job_queue_, active_jobs_>>
       ELSE IF job_queue_ # <<>> /\ Len(active_jobs_) < max_concurrent_jobs_
       THEN /\ job_queue_' = queue_pop(job_queue_, all_jobs_)
            /\ active_jobs_' = Append(active_jobs_, queue_top(job_queue_))
            /\ worker_step(w, "set_running", queue_top(job_queue_))
       ELSE /\ worker_step(w, "wait", 0)
            /\ UNCHANGED <<job_queue_, active_jobs_>>
    /\ UNCHANGED <<running_, next_job_id_, all_jobs_, completed_jobs_,
                   core_availability_, max_concurrent_jobs_, current_policy_,
                   stats_, log_file_, api_pc, control_calls>>

\* condition_.wait: a blocked thread may run again without a notification
spurious_wakeup(w) ==
    /\ worker_pc[w] = "blocked"
    /\ worker_step(w, "condition_wait", 0)
    /\ UNCHANGED <<running_, next_job_id_, all_jobs_, job_queue_, active_jobs_,
                   completed_jobs_, core_availability_, max_concurrent_jobs_,
                   current_policy_, stats_, log_file_, api_pc, control_calls>>

\* execute_job: fork() returns the pid of the new child to the worker
execute_job_fork(w) ==
    /\ worker_pc[w] = "fork"
    /\ worker_step(w, "waitpid", worker_job[w])
    /\ UNCHANGED <<running_, next_job_id_, all_jobs_, job_queue_, active_jobs_,
                   completed_jobs_, core_availability_, max_concurrent_jobs_,
                   current_policy_, stats_, log_file_, api_pc, control_calls>>

\* execute_job: the child has ended, waitpid returns, and job->status is written
\* from the wait status
execute_job_waitpid_returns(w, exit_kind) ==
    /\ worker_pc[w] = "waitpid"
    /\ all_jobs_' = [all_jobs_ EXCEPT ![worker_job[w]].status =
                        IF exit_kind = "exit_zero" THEN "COMPLETED" ELSE "FAILED"]
    /\ worker_step(w, "log_result", worker_job[w])
    /\ UNCHANGED <<running_, next_job_id_, job_queue_, active_jobs_,
                   completed_jobs_, core_availability_, max_concurrent_jobs_,
                   current_policy_, stats_, log_file_, api_pc, control_calls>>

\* the steps a worker thread takes by itself
WorkerNextStop ==
    \/ \E w \in Workers : worker_while(w)
    \/ \E w \in Workers : worker_condition_wait(w)
    \/ \E w \in Workers : execute_job_set_running(w)
    \/ \E w \in Workers : execute_job_assign_core(w)
    \/ \E w \in Workers : execute_job_log_started(w)
    \/ \E w \in Workers : execute_job_fork(w)
    \/ \E w \in Workers : execute_job_fork_failed(w)
    \/ \E w \in Workers : execute_job_log_result(w)
    \/ \E w \in Workers : release_core(w)
    \/ \E w \in Workers : worker_finish(w)

\* a child that was started ends
ChildExits == \E w \in Workers, k \in StopExitKinds : execute_job_waitpid_returns(w, k)

\* the steps of stop() after running_ = false
StopNext == stop_notify_all \/ stop_join \/ stop_clear

NextStop ==
    \/ start
    \/ \E c \in Commands, p \in SubmitPriorities :
           Len(all_jobs_) < MaxStopJobs /\ submit_job_notify(c, p)
    \/ stop_set_running
    \/ StopNext
    \/ WorkerNextStop
    \/ ChildExits
    \/ \E w \in Workers : spurious_wakeup(w)

\* Every thread that can run does run, and every child that was started ends.
SpecStop ==
    /\ Init
    /\ [][NextStop]_vars
    /\ WF_vars(WorkerNextStop)
    /\ WF_vars(ChildExits)
    /\ WF_vars(StopNext)

\* ------------------------------- job arrays, job scripts and snapshots
\* The caller's position in submit_job_array, in parse_job_script and after a
\* get_* call is kept in api_pc together with the caller's locals.
MaxSubmitJobs == 2
ArraySizes == {0, 1, 2}
ARRAY_ID == "$ARRAY_ID"
\* a command template is the sequence of its pieces, an occurrence of the
\* literal $ARRAY_ID being a piece of its own; the command is their concatenation
ArrayTemplates == {<<"echo ", ARRAY_ID>>, <<"cp in_", ARRAY_ID, " out_", ARRAY_ID>>}

Digits == <<"0", "1", "2", "3", "4", "5", "6", "7", "8", "9">>

\* std::to_string of a non-negative int
RECURSIVE to_string(_)
to_string(n) ==
    IF n < 10 THEN Digits[n + 1]
    ELSE to_string(n \div 10) \o Digits[(n % 10) + 1]

RECURSIVE concat(_)
concat(pieces) ==
    IF pieces = <<>> THEN "" ELSE Head(pieces) \o concat(Tail(pieces))

\* submit_job_array: command.find("$ARRAY_ID") and, if found,
\* command.replace(pos, 9, std::to_string(i))
replace_array_id(command_template, i) ==
    LET pos == find(command_template, ARRAY_ID)
    IN concat(IF pos # 0 THEN [command_template EXCEPT ![pos] = to_string(i)]
              ELSE command_template)

\* submit_job_array: int array_job_id = next_job_id_.load(), without the mutex
submit_job_array_load(command_template, array_size, priority) ==
    /\ api_pc = ApiIdle
    /\ api_pc' = [op |-> "submit_job_array", job |-> 0, jobs |-> <<>>,
                  array_job_id |-> next_job_id_, i |-> 0,
                  command_template |-> command_template,
                  array_size |-> array_size, priority |-> priority]
    /\ UNCHANGED <<running_, next_job_id_, all_jobs_, job_queue_, active_jobs_,
                   completed_jobs_, core_availability_, max_concurrent_jobs_,
                   current_policy_, stats_, log_file_, worker_pc, worker_job,
                   control_calls>>

\* submit_job_array: the loop test and auto job = submit_job(command, priority)
submit_job_array_submit ==
    /\ api_pc.op = "submit_job_array"
    /\ api_pc.job = 0
    /\ api_pc.i < api_pc.array_size
    /\ submit_job_locked(replace_array_id(api_pc.command_template, api_pc.i),
                         api_pc.priority)
    /\ api_pc' = [api_pc EXCEPT !.job = Len(all_jobs_) + 1]
    /\ UNCHANGED <<worker_pc, worker_job>>

\* submit_job_array: the writes of array_job_id, array_task_id and type to the
\* record submit_job returned (no mutex), jobs.push_back(job) and ++i
submit_job_array_write ==
    /\ api_pc.op = "submit_job_array"
    /\ api_pc.job # 0
    /\ all_jobs_' = [all_jobs_ EXCEPT ![api_pc.job] =
                        [@ EXCEPT !.array_job_id = api_pc.array_job_id,
                                  !.array_task_id = api_pc.i,
                                  !.type = "ARRAY_JOB"]]
    /\ api_pc' = [api_pc EXCEPT !.jobs = Append(@, api_pc.job), !.job = 0,
                                !.i = @ + 1]
    /\ UNCHANGED <<running_, next_job_id_, job_queue_, active_jobs_,
                   completed_jobs_, core_availability_, max_concurrent_jobs_,
                   current_policy_, stats_, log_file_, worker_pc, worker_job,
                   control_calls>>

\* submit_job_array is at return jobs
submit_job_array_at_return ==
    /\ api_pc.op = "submit_job_array"
    /\ api_pc.job = 0
    /\ ~(api_pc.i < api_pc.array_size)

\* submit_job_array: return jobs
submit_job_array_return ==
    /\ submit_job_array_at_return
    /\ api_pc' = ApiIdle
    /\ UNCHANGED <<running_, next_job_id_, all_jobs_, job_queue_, active_jobs_,
                   completed_jobs_, core_availability_, max_concurrent_jobs_,
                   current_policy_, stats_, log_file_, worker_pc, worker_job,
                   control_calls>>

\* the submissions a call of submit_job_array in progress has still to make
array_tasks_left ==
    IF api_pc.op = "submit_job_array" /\ api_pc.i < api_pc.array_size
    THEN api_pc.array_size - api_pc.i - (IF api_pc.job # 0 THEN 1 ELSE 0)
    ELSE 0

\* --- job scripts
\* A line of a job script: hash tells whether its first character is '#', text
\* is the line (read for its emptiness and, for the command, its content); for
\* a header, key is the keyword found in the line and value the characters
\* after the first ':'.
HeaderLine(key, value) ==
    [hash |-> TRUE, text |-> "# " \o key \o ":", key |-> key, value |-> value]
BlankLine == [hash |-> FALSE, text |-> "", key |-> "", value |-> <<>>]
CommandLine(text) == [hash |-> FALSE, text |-> text, key |-> "", value |-> <<>>]

\* the files submitted: whether std::ifstream opens the path, and the lines
ScriptPriority ==
    [openable |-> TRUE,
     lines |-> <<HeaderLine("PRIORITY", <<" ", "H", "I", "G", "H">>),
                 CommandLine("true")>>]
\* the layout of the example of the README: headers, a blank line, the command
ScriptReadme ==
    [openable |-> TRUE,
     lines |-> <<HeaderLine("example_job.sh", <<>>),
                 HeaderLine("JOB_NAME", <<" ", "D", "a", "t", "a">>),
                 HeaderLine("PRIORITY", <<" ", "H", "I", "G", "H">>),
                 HeaderLine("MEMORY_LIMIT", <<" ", "2", "0", "4", "8">>),
                 HeaderLine("RUNTIME_LIMIT", <<" ", "3", "0", "0">>),
                 HeaderLine("CORES", <<" ", "4">>),
                 BlankLine,
                 CommandLine("python3 process_data.py")>>]
ScriptLimits ==
    [openable |-> TRUE,
     lines |-> <<HeaderLine("JOB_NAME", <<" ", "D", "a", "t", "a">>),
                 HeaderLine("MEMORY_LIMIT", <<" ", "2", "0", "4", "8">>),
                 HeaderLine("CORES", <<" ", "4">>),
                 CommandLine("python3 process_data.py")>>]
ScriptNoCommand ==
    [openable |-> TRUE,
     lines |-> <<HeaderLine("PRIORITY", <<" ", "L", "O", "W">>)>>]
ScriptBadMemory ==
    [openable |-> TRUE,
     lines |-> <<HeaderLine("MEMORY_LIMIT", <<" ", "a", "b", "c">>),
                 CommandLine("true")>>]
ScriptBadDependency ==
    [openable |-> TRUE,
     lines |-> <<HeaderLine("DEPENDENCIES", <<" ", "1", ",", " ", "x">>),
                 CommandLine("true")>>]
ScriptDependency ==
    [openable |-> TRUE,
     lines |-> <<HeaderLine("DEPENDENCIES", <<" ", "1">>),
                 CommandLine("true")>>]
ScriptMissing == [openable |-> FALSE, lines |-> <<>>]
Scripts == {ScriptPriority, ScriptReadme, ScriptLimits, ScriptNoCommand,
            ScriptBadMemory, ScriptBadDependency, ScriptDependency,
            ScriptMissing}

IsDigit(c) == \E d \in 1 .. 10 : Digits[d] = c
DigitValue(c) == (CHOOSE d \in 1 .. 10 : Digits[d] = c) - 1

\* s.erase(0, s.find_first_not_of(" \t"))
RECURSIVE trim_left(_)
trim_left(v) ==
    IF v # <<>> /\ v[1] \in {" ", "\t"} THEN trim_left(Tail(v)) ELSE v

\* s.erase(s.find_last_not_of(" \t") + 1)
RECURSIVE trim_right(_)
trim_right(v) ==
    IF v # <<>> /\ v[Len(v)] \in {" ", "\t"}
    THEN trim_right(SubSeq(v, 1, Len(v) - 1)) ELSE v

\* the digits std::stoi converts: after white space and a sign
stoi_digits(v) ==
    LET u == trim_left(v)
    IN IF u # <<>> /\ u[1] \in {"+", "-"} THEN Tail(u) ELSE u

\* mutant: a value without digits is converted without an exception
stoi_throws_never(v) == FALSE

\* std::stoi / std::stoul throw std::invalid_argument when no digit can be
\* converted
stoi_throws(v) == stoi_digits(v) = <<>> \/ ~IsDigit(stoi_digits(v)[1])

RECURSIVE stoi_value(_, _)
stoi_value(v, acc) ==
    IF v # <<>> /\ IsDigit(v[1])
    THEN stoi_value(Tail(v), acc * 10 + DigitValue(v[1]))
    ELSE acc

\* std::stoi: the leading digits, with the sign
stoi(v) ==
    LET u == trim_left(v)
    IN IF u # <<>> /\ u[1] = "-" THEN 0 - stoi_value(stoi_digits(v), 0)
       ELSE stoi_value(stoi_digits(v), 0)

\* the strings std::getline(ss, dep, ',') reads from deps
RECURSIVE split(_)
split(v) ==
    IF v = <<>> THEN <<>>
    ELSE LET k == find(v, ",")
         IN IF k = 0 THEN <<v>>
            ELSE <<SubSeq(v, 1, k - 1)>> \o split(SubSeq(v, k + 1, Len(v)))

\* the locals of parse_job_script before the first line is read; error is the
\* exception thrown, "" for none
ParseStart ==
    [error |-> "", job_name |-> "", priority |-> MEDIUM, command |-> "",
     memory_limit |-> max_memory_mb, dependencies |-> <<>>]

\* parse_job_script: the loop over the items of a DEPENDENCIES header
RECURSIVE parse_dependencies(_, _, _)
parse_dependencies(st, deps, k) ==
    IF k > Len(deps) THEN st
    ELSE LET dep == trim_right(trim_left(deps[k]))
         IN IF stoi_throws(dep) THEN [st EXCEPT !.error = "invalid_argument"]
            ELSE parse_dependencies(
                     [st EXCEPT !.dependencies = Append(@, stoi(dep))], deps, k + 1)

\* parse_job_script: one header line
parse_header(st, line) ==
    CASE line.key = "JOB_NAME" ->
            [st EXCEPT !.job_name = concat(trim_right(trim_left(line.value)))]
      [] line.key = "PRIORITY" ->
            LET pri == concat(trim_right(trim_left(line.value)))
            IN [st EXCEPT !.priority = IF pri = "HIGH" THEN HIGH
                                       ELSE IF pri = "LOW" THEN LOW
                                       ELSE IF pri = "CRITICAL" THEN CRITICAL
                                       ELSE @]
      [] line.key = "MEMORY_LIMIT" ->
            IF stoi_throws(trim_left(line.value))
            THEN [st EXCEPT !.error = "invalid_argument"]
            ELSE [st EXCEPT !.memory_limit = stoi(trim_left(line.value))]
      [] line.key \in {"RUNTIME_LIMIT", "CORES"} ->
            IF stoi_throws(trim_left(line.value))
            THEN [st EXCEPT !.error = "invalid_argument"]
            ELSE st
      [] line.key = "DEPENDENCIES" ->
            parse_dependencies(st, split(trim_left(line.value)), 1)
      [] OTHER -> st

\* parse_job_script: the loop over the lines; the first line that is empty or
\* does not start with '#' is taken as the command and ends the loop
RECURSIVE parse_lines(_, _, _)
parse_lines(lines, k, st) ==
    IF k > Len(lines) THEN st
    ELSE IF lines[k].text = "" \/ ~lines[k].hash
    THEN [st EXCEPT !.command = lines[k].text]
    ELSE LET next == parse_header(st, lines[k])
         IN IF next.error # "" THEN next ELSE parse_lines(lines, k + 1, next)

\* parse_job_script up to the submission: the locals, or the exception
parse_job_script_locals(script) ==
    IF ~script.openable
    THEN [ParseStart EXCEPT !.error = "Failed to open job script"]
    ELSE LET st == parse_lines(script.lines, 1, ParseStart)
         IN IF st.error = "" /\ st.command = ""
            THEN [st EXCEPT !.error = "No command found in job script"]
            ELSE st

\* JobScheduler::submit_job_script: parse_job_script up to the return of
\* submit_job / submit_job_with_deps, or up to the exception
submit_job_script(script) ==
    /\ api_pc = ApiIdle
    /\ LET st == parse_job_script_locals(script)
       IN IF st.error # ""
          THEN /\ api_pc' = [op |-> "threw", job |-> 0, what |-> st.error]
               /\ UNCHANGED <<running_, next_job_id_, all_jobs_, job_queue_,
                              active_jobs_, completed_jobs_, core_availability_,
                              max_concurrent_jobs_, current_policy_, stats_,
                              log_file_, worker_pc, worker_job, control_calls>>
          ELSE /\ IF st.dependencies # <<>>
                  THEN submit_job_with_deps_locked(st.command,
                           Range(st.dependencies), st.priority)
                  ELSE submit_job_locked(st.command, st.priority)
               /\ api_pc' = [op |-> "parse_job_script", job |-> Len(all_jobs_) + 1,
                             locals |-> st]
               /\ UNCHANGED <<worker_pc, worker_job>>

\* parse_job_script: the writes to the record after the submission (no mutex)
parse_job_script_write ==
    /\ api_pc.op = "parse_job_script"
    /\ all_jobs_' = [all_jobs_ EXCEPT ![api_pc.job] =
                        [@ EXCEPT !.job_name = IF api_pc.locals.job_name # ""
                                               THEN api_pc.locals.job_name ELSE @,
                                  !.limits = [max_memory_mb |->
                                                  api_pc.locals.memory_limit],
                                  !.type = "BATCH"]]
    /\ api_pc' = ApiIdle
    /\ UNCHANGED <<running_, next_job_id_, job_queue_, active_jobs_,
                   completed_jobs_, core_availability_, max_concurrent_jobs_,
                   current_policy_, stats_, log_file_, worker_pc, worker_job,
                   control_calls>>

\* Shell::submit_job_file: the exception is caught and its message printed
submit_job_file_catch ==
    /\ api_pc.op = "threw"
    /\ api_pc' = ApiIdle
    /\ UNCHANGED <<running_, next_job_id_, all_jobs_, job_queue_, active_jobs_,
                   completed_jobs_, core_availability_, max_concurrent_jobs_,
                   current_policy_, stats_, log_file_, worker_pc, worker_job,
                   control_calls>>

\* --- get_jobs, get_active_jobs, get_completed_jobs
\* the caller holds the vector of JobPtr the call returned
get_returns(vec) ==
    /\ api_pc = ApiIdle
    /\ ~mutex_locked
    /\ api_pc' = [op |-> "show_jobs", job |-> 0, jobs |-> vec]
    /\ UNCHANGED <<running_, next_job_id_, all_jobs_, job_queue_, active_jobs_,
                   completed_jobs_, core_availability_, max_concurrent_jobs_,
                   current_policy_, stats_, log_file_, worker_pc, worker_job,
                   control_calls>>

get_jobs == get_returns([i \in 1 .. Len(all_jobs_) |-> i])
get_active_jobs == get_returns(active_jobs_)
get_completed_jobs == get_returns(completed_jobs_)

\* what the caller reads through the vector it holds: the records pointed to
observed(jobs) == [k \in 1 .. Len(jobs) |-> all_jobs_[jobs[k]]]

\* Shell::show_jobs: print_job_table(jobs) has read the records; the vector
\* is dropped
print_job_table ==
    /\ api_pc.op = "show_jobs"
    /\ api_pc' = ApiIdle
    /\ UNCHANGED <<running_, next_job_id_, all_jobs_, job_queue_, active_jobs_,
                   completed_jobs_, core_availability_, max_concurrent_jobs_,
                   current_policy_, stats_, log_file_, worker_pc, worker_job,
                   control_calls>>

\* Submissions of every kind and the get_* calls of a front-end thread, plain
\* submissions of other threads, and the workers, whose jobs end with exit code 0.
NextSubmit ==
    \/ start
    \/ \E c \in Commands, p \in SubmitPriorities :
           Len(all_jobs_) + array_tasks_left < MaxSubmitJobs /\ submit_job(c, p)
    \/ \E t \in ArrayTemplates, n \in ArraySizes, p \in SubmitPriorities :
           Len(all_jobs_) + n <= MaxSubmitJobs /\ submit_job_array_load(t, n, p)
    \/ submit_job_array_submit
    \/ submit_job_array_write
    \/ submit_job_array_return
    \/ \E script \in Scripts :
           Len(all_jobs_) < MaxSubmitJobs /\ submit_job_script(script)
    \/ parse_job_script_write
    \/ submit_job_file_catch
    \/ get_jobs
    \/ get_active_jobs
    \/ get_completed_jobs
    \/ print_job_table
    \/ \E w \in Workers : worker_dequeue(w)
    \/ \E w \in Workers : execute_job_set_running(w)
    \/ \E w \in Workers : execute_job_assign_core(w)
    \/ \E w \in Workers : execute_job_log_started(w)
    \/ \E w \in Workers : execute_job_waitpid(w, "exit_zero")
    \/ \E w \in Workers : execute_job_log_result(w)
    \/ \E w \in Workers : release_core(w)
    \/ \E w \in Workers : worker_finish(w)

SpecSubmit == Init /\ [][NextSubmit]_vars

\* ------------------------------------------------ multi-core allocation
\* Bound on the jobs submitted while cores are allocated in groups
MaxCoreJobs == 2

\* the counts passed to assign_multiple_cores
CoreCounts == 0 .. NumCores + 1

\* assign_multiple_cores: the loop over core_availability_ from index i, which
\* stops at the end of the table or when count cores are collected
RECURSIVE assign_multiple_cores_loop(_, _, _)
assign_multiple_cores_loop(i, count, assigned_cores) ==
    IF ~(i < NumCores /\ Len(assigned_cores) < count)
    THEN assigned_cores
    ELSE assign_multiple_cores_loop(i + 1, count,
             IF core_availability_[i] THEN Append(assigned_cores, i)
                                      ELSE assigned_cores)

\* JobScheduler::assign_multiple_cores(count); the vector returned is kept by
\* the caller until it calls release_cores
assign_multiple_cores(count) ==
    /\ api_pc = ApiIdle
    /\ LET assigned_cores == assign_multiple_cores_loop(0, count, <<>>)
       IN /\ core_availability_' =
                 [c \in Cores |-> core_availability_[c] /\ c \notin Range(assigned_cores)]
          /\ api_pc' = [op |-> "assign_multiple_cores", job |-> 0, count |-> count,
                        assigned_cores |-> assigned_cores]
    /\ UNCHANGED <<running_, next_job_id_, all_jobs_, job_queue_, active_jobs_,
                   completed_jobs_, max_concurrent_jobs_, current_policy_, stats_,
                   log_file_, worker_pc, worker_job, control_calls>>

\* JobScheduler::release_cores(core_ids), called with the vector that
\* assign_multiple_cores returned
release_cores ==
    /\ api_pc.op = "assign_multiple_cores"
    /\ core_availability_' =
           [c \in Cores |-> core_availability_[c] \/ c \in Range(api_pc.assigned_cores)]
    /\ api_pc' = ApiIdle
    /\ UNCHANGED <<running_, next_job_id_, all_jobs_, job_queue_, active_jobs_,
                   completed_jobs_, max_concurrent_jobs_, current_policy_, stats_,
                   log_file_, worker_pc, worker_job, control_calls>>

\* Cores taken one at a time by the workers and in groups by a caller of
\* assign_multiple_cores; every child exits with code 0.
NextCores ==
    \/ start
    \/ \E c \in Commands, p \in SubmitPriorities :
           Len(all_jobs_) < MaxCoreJobs /\ submit_job(c, p)
    \/ \E count \in CoreCounts : assign_multiple_cores(count)
    \/ release_cores
    \/ \E w \in Workers : worker_dequeue(w)
    \/ \E w \in Workers : execute_job_set_running(w)
    \/ \E w \in Workers : execute_job_assign_core(w)
    \/ \E w \in Workers : execute_job_log_started(w)
    \/ \E w \in Workers : execute_job_waitpid(w, "exit_zero")
    \/ \E w \in Workers : execute_job_log_result(w)
    \/ \E w \in Workers : release_core(w)
    \/ \E w \in Workers : worker_finish(w)

SpecCores == Init /\ [][NextCores]_vars

\* ------------------------------------------- dispatch and condition_
\* Bound on the jobs submitted while the wait on condition_ is followed
MaxWaitJobs == 3

\* the dependency lists submitted here: none, or the first job
WaitDepSets == {{}, {FirstJobId}}

\* JobScheduler::submit_job_with_deps with its condition_.notify_one(), which
\* is called whether the job went to the queue or not
submit_job_with_deps_notify(command, dependencies, priority) ==
    /\ api_pc = ApiIdle
    /\ submit_job_with_deps_locked(command, dependencies, priority)
    /\ workers_become(notify_one(worker_pc), worker_job)
    /\ UNCHANGED api_pc

\* the steps of worker_function around the wait
WorkerLoop ==
    \/ \E w \in Workers : worker_while(w)
    \/ \E w \in Workers : worker_condition_wait(w)

\* the steps of execute_job up to fork()
WorkerStarts ==
    \/ \E w \in Workers : execute_job_set_running(w)
    \/ \E w \in Workers : execute_job_assign_core(w)
    \/ \E w \in Workers : execute_job_log_started(w)
    \/ \E w \in Workers : execute_job_fork(w)

\* a child that was started ends with exit code 0
ChildExitsZero == \E w \in Workers : execute_job_waitpid_returns(w, "exit_zero")

\* the steps of a worker after waitpid
WorkerEnds ==
    \/ \E w \in Workers : execute_job_log_result(w)
    \/ \E w \in Workers : release_core(w)
    \/ \E w \in Workers : worker_finish(w)

NextWait ==
    \/ start
    \/ \E c \in Commands, p \in SubmitPriorities :
           Len(all_jobs_) < MaxWaitJobs /\ submit_job_notify(c, p)
    \/ \E c \in Commands, d \in WaitDepSets, p \in SubmitPriorities :
           Len(all_jobs_) < MaxWaitJobs /\ submit_job_with_deps_notify(c, d, p)
    \/ \E n \in NewMaxConcurrent : set_max_concurrent_jobs(n)
    \/ WorkerLoop
    \/ WorkerStarts
    \/ ChildExitsZero
    \/ WorkerEnds
    \/ \E w \in Workers : spurious_wakeup(w)

\* The scheduler is started, every worker that can run does run, and every
\* child that was started ends; a blocked worker need never wake by itself.
SpecWait ==
    /\ Init
    /\ [][NextWait]_vars
    /\ WF_vars(start)
    /\ WF_vars(WorkerLoop)
    /\ WF_vars(WorkerStarts)
    /\ WF_vars(ChildExitsZero)
    /\ WF_vars(WorkerEnds)

\* --------------------------------------------- mutex_ and the log mutex
\* Here every thread is followed lock operation by lock operation.  The
\* position of a thread is a record: op names the function it runs, at is the
\* index of its next operation in the program of that function, and cv tells
\* whether it is inside condition_.wait with mutex_ released ("blocked"),
\* notified and about to take mutex_ again ("woken"), or neither ("none").
\* The locks a thread holds follow from its position.
MaxLockJobs == 2

\* worker_function, one round of its loop with execute_job inlined
worker_function_program ==
    << <<"while", "running_">>,             \* while (running_)
       <<"lock", "mutex_">>,                \* std::unique_lock lock(mutex_)
       <<"wait", "condition_">>,            \* condition_.wait(lock, ...)
       <<"pop", "job_queue_">>,             \* return, or top/pop/push_back
       <<"unlock", "mutex_">>,              \* end of the block
       <<"store", "RUNNING">>,              \* execute_job: job->status
       <<"lock", "mutex_">>,                \* assign_core: lock_guard
       <<"assign_core", "core_availability_">>,
       <<"unlock", "mutex_">>,
       <<"lock", "Logger::mutex_">>,        \* log_job_started
       <<"write", "STARTED">>,
       <<"unlock", "Logger::mutex_">>,
       <<"block", "waitpid">>,              \* fork, waitpid
       <<"store", "COMPLETED">>,            \* job->status from the wait status
       <<"lock", "Logger::mutex_">>,        \* log_job_completed
       <<"write", "COMPLETED">>,
       <<"unlock", "Logger::mutex_">>,
       <<"lock", "mutex_">>,                \* release_core: lock_guard
       <<"release_core", "core_availability_">>,
       <<"unlock", "mutex_">>,
       <<"lock", "mutex_">>,                \* worker_function: lock_guard
       <<"erase", "active_jobs_">>,         \* erase, push_back, promotion
       <<"unlock", "mutex_">> >>

\* mutant: submit_job writes its log record before it takes mutex_ and keeps
\* the log mutex
submit_job_program_log_first ==
    << <<"lock", "Logger::mutex_">>,
       <<"lock", "mutex_">>,
       <<"submit", "job_queue_">>,
       <<"notify_one", "condition_">>,
       <<"unlock", "mutex_">>,
       <<"unlock", "Logger::mutex_">> >>

\* JobScheduler::submit_job
submit_job_program ==
    << <<"lock", "mutex_">>,                \* lock_guard
       <<"lock", "Logger::mutex_">>,        \* log_job_submitted
       <<"submit", "job_queue_">>,          \* the job made, pushed and logged
       <<"unlock", "Logger::mutex_">>,
       <<"notify_one", "condition_">>,
       <<"unlock", "mutex_">> >>

\* JobScheduler::kill_job
kill_job_program ==
    << <<"lock", "mutex_">>,                \* lock_guard
       <<"kill", "active_jobs_">>,          \* find_if; return false, or KILLED
       <<"lock", "Logger::mutex_">>,        \* log_job_killed
       <<"write", "KILLED">>,
       <<"unlock", "Logger::mutex_">>,
       <<"unlock", "mutex_">> >>

\* JobScheduler::stop
stop_program ==
    << <<"lock", "mutex_">>,                \* lock_guard in the block
       <<"store", "running_">>,             \* running_ = false
       <<"unlock", "mutex_">>,
       <<"notify_all", "condition_">>,
       <<"block", "join">>,                 \* thread.join() of every worker
       <<"lock", "mutex_">>,                \* lock_guard
       <<"clear", "active_jobs_">>,
       <<"unlock", "mutex_">> >>

LockProgram(op) ==
    CASE op = "worker_function" -> worker_function_program
      [] op = "submit_job" -> submit_job_program
      [] op = "kill_job" -> kill_job_program
      [] op = "stop" -> stop_program
      [] OTHER -> <<>>

\* the threads: the workers and the thread of the front end
FrontEnd == NumCores + 1
Threads == Workers \cup {FrontEnd}
Mutexes == {"mutex_", "Logger::mutex_"}

thread(i) == IF i = FrontEnd THEN api_pc ELSE worker_pc[i]

\* the operation thread position t is about to execute
next_op(t) ==
    IF t.at <= Len(LockProgram(t.op)) THEN LockProgram(t.op)[t.at]
    ELSE <<"none", "none">>

\* position t holds mutex m: it has locked m more often than unlocked it, and
\* it is not inside condition_.wait, which releases mutex_
holds(t, m) ==
    LET program == LockProgram(t.op)
        done == 1 .. (t.at - 1)
    IN /\ Cardinality({k \in done : program[k] = <<"lock", m>>})
             > Cardinality({k \in done : program[k] = <<"unlock", m>>})
       /\ m = "mutex_" => t.cv = "none"

\* position t waits for mutex m
wants(t, m) ==
    \/ t.cv = "none" /\ next_op(t) = <<"lock", m>>
    \/ t.cv = "woken" /\ m = "mutex_"

locked(m) == \E i \in Threads : holds(thread(i), m)

\* the position after the operation at t.at; a worker that reaches the end of
\* its program goes round its loop, the front end returns from the call
advance(i) ==
    LET t == thread(i)
    IN IF t.at < Len(LockProgram(t.op)) THEN [t EXCEPT !.at = @ + 1]
       ELSE IF i = FrontEnd
       THEN [op |-> IF t.op = "stop" THEN "returned" ELSE "idle", job |-> 0,
             at |-> 1, cv |-> "none"]
       ELSE [t EXCEPT !.at = 1]

thread_becomes(i, t) ==
    IF i = FrontEnd THEN api_pc' = t /\ UNCHANGED worker_pc
    ELSE worker_pc' = [worker_pc EXCEPT ![i] = t] /\ UNCHANGED api_pc

\* thread i is at an operation of this kind, outside condition_.wait
at_op(i, kind) == thread(i).cv = "none" /\ next_op(thread(i))[1] = kind

\* the job of thread i: the one the worker popped, the one the call names
job_of(i) ==
    IF i = FrontEnd THEN active_jobs_[find_if(active_jobs_, api_pc.job)]
    ELSE worker_job[i]

InitLocks ==
    /\ running_ = FALSE
    /\ next_job_id_ = FirstJobId
    /\ all_jobs_ = <<>>
    /\ job_queue_ = <<>>
    /\ active_jobs_ = <<>>
    /\ completed_jobs_ = <<>>
    /\ core_availability_ = [c \in Cores |-> TRUE]
    /\ max_concurrent_jobs_ = NumCores * 2
    /\ current_policy_ = "PRIORITY_FIRST"
    /\ stats_ = [total_jobs_submitted |-> 0, total_jobs_completed |-> 0,
                 total_jobs_failed |-> 0, total_jobs_killed |-> 0,
                 current_memory_usage_mb |-> 0]
    /\ log_file_ = [id \in AllJobIds |-> <<>>]
    /\ worker_pc = [w \in Workers |-> [op |-> "not_started", at |-> 1, cv |-> "none"]]
    /\ worker_job = [w \in Workers |-> 0]
    /\ api_pc = [op |-> "idle", job |-> 0, at |-> 1, cv |-> "none"]
    /\ control_calls = 0

\* JobScheduler::start, called once by the constructor of Shell
start_threads ==
    /\ \A w \in Workers : worker_pc[w].op = "not_started"
    /\ running_' = TRUE
    /\ worker_pc' = [w \in Workers |-> [op |-> "worker_function", at |-> 1, cv |-> "none"]]
    /\ UNCHANGED <<next_job_id_, all_jobs_, job_queue_, active_jobs_,
                   completed_jobs_, core_availability_, max_concurrent_jobs_,
                   current_policy_, stats_, log_file_, worker_job, api_pc,
                   control_calls>>

\* the front end calls a function of the scheduler; stop is its last call,
\* and the calls of kill_job are counted against MaxControlCalls
call(op, job) ==
    /\ api_pc.op = "idle"
    /\ running_
    /\ op = "submit_job" => Len(all_jobs_) < MaxLockJobs
    /\ IF op = "kill_job"
       THEN /\ control_calls < MaxControlCalls
            /\ control_calls' = control_calls + 1
       ELSE UNCHANGED control_calls
    /\ api_pc' = [op |-> op, job |-> job, at |-> 1, cv |-> "none"]
    /\ UNCHANGED <<running_, next_job_id_, all_jobs_, job_queue_, active_jobs_,
                   completed_jobs_, core_availability_, max_concurrent_jobs_,
                   current_policy_, stats_, log_file_, worker_pc, worker_job>>

\* std::mutex::lock: the thread goes on once no thread holds the mutex
lock(i) ==
    /\ at_op(i, "lock")
    /\ ~locked(next_op(thread(i))[2])
    /\ thread_becomes(i, advance(i))
    /\ UNCHANGED <<running_, next_job_id_, all_jobs_, job_queue_, active_jobs_,
                   completed_jobs_, core_availability_, max_concurrent_jobs_,
                   current_policy_, stats_, log_file_, worker_job, control_calls>>

\* std::mutex::unlock, at the end of the scope of the guard
unlock(i) ==
    /\ at_op(i, "unlock")
    /\ thread_becomes(i, advance(i))
    /\ UNCHANGED <<running_, next_job_id_, all_jobs_, job_queue_, active_jobs_,
                   completed_jobs_, core_availability_, max_concurrent_jobs_,
                   current_policy_, stats_, log_file_, worker_job, control_calls>>

\* worker_function: while (running_)
while_running(w) ==
    /\ at_op(w, "while")
    /\ worker_pc' = [worker_pc EXCEPT ![w] =
                        IF running_ THEN advance(w)
                        ELSE [op |-> "exited", at |-> 1, cv |-> "none"]]
    /\ UNCHANGED <<running_, next_job_id_, all_jobs_, job_queue_, active_jobs_,
                   completed_jobs_, core_availability_, max_concurrent_jobs_,
                   current_policy_, stats_, log_file_, worker_job, api_pc,
                   control_calls>>

\* condition_.wait(lock, pred): with the predicate false the thread releases
\* mutex_ and blocks
wait(w) ==
    /\ at_op(w, "wait")
    /\ worker_pc' = [worker_pc EXCEPT ![w] =
                        IF ~running_ \/ job_queue_ # <<>> THEN advance(w)
                        ELSE [@ EXCEPT !.cv = "blocked"]]
    /\ UNCHANGED <<running_, next_job_id_, all_jobs_, job_queue_, active_jobs_,
                   completed_jobs_, core_availability_, max_concurrent_jobs_,
                   current_policy_, stats_, log_file_, worker_job, api_pc,
                   control_calls>>

\* condition_.wait: a blocked thread may wake without a notification
wakeup(w) ==
    /\ worker_pc[w].cv = "blocked"
    /\ worker_pc' = [worker_pc EXCEPT ![w].cv = "woken"]
    /\ UNCHANGED <<running_, next_job_id_, all_jobs_, job_queue_, active_jobs_,
                   completed_jobs_, core_availability_, max_concurrent_jobs_,
                   current_policy_, stats_, log_file_, worker_job, api_pc,
                   control_calls>>

\* condition_.wait: the woken thread takes mutex_ again and tests the predicate
relock(w) ==
    /\ worker_pc[w].cv = "woken"
    /\ ~locked("mutex_")
    /\ worker_pc' = [worker_pc EXCEPT ![w].cv = "none"]
    /\ UNCHANGED <<running_, next_job_id_, all_jobs_, job_queue_, active_jobs_,
                   completed_jobs_, core_availability_, max_concurrent_jobs_,
                   current_policy_, stats_, log_file_, worker_job, api_pc,
                   control_calls>>

\* worker_function: return with running_ false; else the top of the queue is
\* taken if the active set has room; with no job the block ends and the
\* worker goes round its loop
pop(w) ==
    /\ at_op(w, "pop")
    /\ IF ~running_
       THEN /\ worker_pc' = [worker_pc EXCEPT ![w] =
                                [op |-> "exited", at |-> 1, cv |-> "none"]]
            /\ UNCHANGED <<job_queue_, active_jobs_, worker_job>>
       ELSE IF job_queue_ # <<>> /\ Len(active_jobs_) < max_concurrent_jobs_
       THEN /\ job_queue_' = queue_pop(job_queue_, all_jobs_)
            /\ active_jobs_' = Append(active_jobs_, queue_top(job_queue_))
            /\ worker_job' = [worker_job EXCEPT ![w] = queue_top(job_queue_)]
            /\ worker_pc' = [worker_pc EXCEPT ![w] = advance(w)]
       ELSE /\ worker_pc' = [worker_pc EXCEPT ![w].at = 1]
            /\ UNCHANGED <<job_queue_, active_jobs_, worker_job>>
    /\ UNCHANGED <<running_, next_job_id_, all_jobs_, completed_jobs_,
                   core_availability_, max_concurrent_jobs_, current_policy_,
                   stats_, log_file_, api_pc, control_calls>>

\* execute_job: job->status = RUNNING, and the status from the wait status
\* (every child here exits with code 0); stop: running_ = false
store(i) ==
    /\ at_op(i, "store")
    /\ IF i = FrontEnd
       THEN running_' = FALSE /\ UNCHANGED all_jobs_
       ELSE /\ all_jobs_' = [all_jobs_ EXCEPT ![worker_job[i]].status =
                                next_op(thread(i))[2]]
            /\ UNCHANGED running_
    /\ thread_becomes(i, advance(i))
    /\ UNCHANGED <<next_job_id_, job_queue_, active_jobs_, completed_jobs_,
                   core_availability_, max_concurrent_jobs_, current_policy_,
                   stats_, log_file_, worker_job, control_calls>>

\* assign_core, under its lock_guard
locked_assign_core(w) ==
    /\ at_op(w, "assign_core")
    /\ all_jobs_' = [all_jobs_ EXCEPT ![worker_job[w]].assigned_core_id = assign_core]
    /\ core_availability_' = IF assign_core = NoCore THEN core_availability_
                             ELSE [core_availability_ EXCEPT ![assign_core] = FALSE]
    /\ worker_pc' = [worker_pc EXCEPT ![w] = advance(w)]
    /\ UNCHANGED <<running_, next_job_id_, job_queue_, active_jobs_,
                   completed_jobs_, max_concurrent_jobs_, current_policy_,
                   stats_, log_file_, worker_job, api_pc, control_calls>>

\* Logger::write_log_entry, under the lock_guard of the logger
locked_write(i) ==
    /\ at_op(i, "write")
    /\ log_file_' = write_log_entry(log_file_, all_jobs_[job_of(i)],
                                    next_op(thread(i))[2])
    /\ thread_becomes(i, advance(i))
    /\ UNCHANGED <<running_, next_job_id_, all_jobs_, job_queue_, active_jobs_,
                   completed_jobs_, core_availability_, max_concurrent_jobs_,
                   current_policy_, stats_, worker_job, control_calls>>

\* a wait for another thread or process that takes no lock: waitpid returns
\* when the child has ended, the joins when every worker has returned
block(i) ==
    /\ at_op(i, "block")
    /\ next_op(thread(i))[2] = "join"
           => \A w \in Workers : worker_pc[w].op = "exited"
    /\ thread_becomes(i, advance(i))
    /\ UNCHANGED <<running_, next_job_id_, all_jobs_, job_queue_, active_jobs_,
                   completed_jobs_, core_availability_, max_concurrent_jobs_,
                   current_policy_, stats_, log_file_, worker_job, control_calls>>

\* release_core, under its lock_guard
locked_release_core(w) ==
    /\ at_op(w, "release_core")
    /\ LET core_id == all_jobs_[worker_job[w]].assigned_core_id
       IN core_availability_' =
              IF core_id >= 0 /\ core_id < NumCores
              THEN [core_availability_ EXCEPT ![core_id] = TRUE]
              ELSE core_availability_
    /\ worker_pc' = [worker_pc EXCEPT ![w] = advance(w)]
    /\ UNCHANGED <<running_, next_job_id_, all_jobs_, job_queue_, active_jobs_,
                   completed_jobs_, max_concurrent_jobs_, current_policy_,
                   stats_, log_file_, worker_job, api_pc, control_calls>>

\* worker_function: the critical section after execute_job
locked_erase(w) ==
    /\ at_op(w, "erase")
    /\ LET job == worker_job[w]
           it == find(active_jobs_, job)
           status == all_jobs_[job].status
           ready == promoted(job)
           jobs == [k \in 1 .. Len(all_jobs_) |->
                       IF k \in ready THEN [all_jobs_[k] EXCEPT !.status = "PENDING"]
                       ELSE all_jobs_[k]]
       IN IF it # 0
          THEN /\ active_jobs_' = erase(active_jobs_, it)
               /\ IF status \in {"COMPLETED", "FAILED", "KILLED"}
                  THEN /\ completed_jobs_' = Append(completed_jobs_, job)
                       /\ stats_' =
                            IF status = "COMPLETED"
                            THEN [stats_ EXCEPT !.total_jobs_completed = @ + 1]
                            ELSE IF status = "FAILED"
                            THEN [stats_ EXCEPT !.total_jobs_failed = @ + 1]
                            ELSE stats_
                       /\ all_jobs_' = jobs
                       /\ job_queue_' = push_promoted(job_queue_, 1, ready, jobs)
                  ELSE UNCHANGED <<completed_jobs_, stats_, all_jobs_, job_queue_>>
          ELSE UNCHANGED <<active_jobs_, completed_jobs_, stats_, all_jobs_,
                           job_queue_>>
    /\ worker_pc' = [worker_pc EXCEPT ![w] = advance(w)]
    /\ worker_job' = [worker_job EXCEPT ![w] = 0]
    /\ UNCHANGED <<running_, next_job_id_, core_availability_,
                   max_concurrent_jobs_, current_policy_, log_file_, api_pc,
                   control_calls>>

\* submit_job: the job is made, pushed, counted and logged, under both mutexes
locked_submit(command, priority) ==
    /\ at_op(FrontEnd, "submit")
    /\ submit_job_locked(command, priority)
    /\ api_pc' = advance(FrontEnd)
    /\ UNCHANGED <<worker_pc, worker_job>>

\* condition_.notify_one() / notify_all(): blocked threads are woken
notify(i) ==
    /\ \/ at_op(i, "notify_one") \/ at_op(i, "notify_all")
    /\ LET blocked == {w \in Workers : worker_pc[w].cv = "blocked"}
           woken == IF at_op(i, "notify_all") \/ blocked = {} THEN blocked
                    ELSE {CHOOSE w \in blocked : \A v \in blocked : w <= v}
       IN worker_pc' = [w \in Workers |->
                           IF w \in woken THEN [worker_pc[w] EXCEPT !.cv = "woken"]
                           ELSE worker_pc[w]]
    /\ api_pc' = advance(i)
    /\ UNCHANGED <<running_, next_job_id_, all_jobs_, job_queue_, active_jobs_,
                   completed_jobs_, core_availability_, max_concurrent_jobs_,
                   current_policy_, stats_, log_file_, worker_job, control_calls>>

\* kill_job: find_if over active_jobs_; return false, or status KILLED
locked_kill ==
    /\ at_op(FrontEnd, "kill")
    /\ LET it == find_if(active_jobs_, api_pc.job)
       IN IF it # 0
          THEN /\ all_jobs_' = [all_jobs_ EXCEPT ![active_jobs_[it]].status = "KILLED"]
               /\ stats_' = [stats_ EXCEPT !.total_jobs_killed = @ + 1]
               /\ api_pc' = advance(FrontEnd)
          ELSE /\ api_pc' = [op |-> "idle", job |-> 0, at |-> 1, cv |-> "none"]
               /\ UNCHANGED <<all_jobs_, stats_>>
    /\ UNCHANGED <<running_, next_job_id_, job_queue_, active_jobs_,
                   completed_jobs_, core_availability_, max_concurrent_jobs_,
                   current_policy_, log_file_, worker_pc, worker_job,
                   control_calls>>

\* stop: active_jobs_.clear()
locked_clear ==
    /\ at_op(FrontEnd, "clear")
    /\ active_jobs_' = <<>>
    /\ api_pc' = advance(FrontEnd)
    /\ UNCHANGED <<running_, next_job_id_, all_jobs_, job_queue_,
                   completed_jobs_, core_availability_, max_concurrent_jobs_,
                   current_policy_, stats_, log_file_, worker_pc, worker_job,
                   control_calls>>

NextLocks ==
    \/ start_threads
    \/ call("submit_job", 0)
    \/ \E id \in FirstJobId .. (FirstJobId + MaxLockJobs - 1) : call("kill_job", id)
    \/ call("stop", 0)
    \/ \E i \in Threads : lock(i)
    \/ \E i \in Threads : unlock(i)
    \/ \E w \in Workers : while_running(w)
    \/ \E w \in Workers : wait(w)
    \/ \E w \in Workers : wakeup(w)
    \/ \E w \in Workers : relock(w)
    \/ \E w \in Workers : pop(w)
    \/ \E i \in Threads : store(i)
    \/ \E w \in Workers : locked_assign_core(w)
    \/ \E i \in Threads : locked_write(i)
    \/ \E i \in Threads : block(i)
    \/ \E w \in Workers : locked_release_core(w)
    \/ \E w \in Workers : locked_erase(w)
    \/ \E c \in Commands, p \in SubmitPriorities : locked_submit(c, p)
    \/ notify(FrontEnd)
    \/ locked_kill
    \/ locked_clear

SpecLocks == InitLocks /\ [][NextLocks]_vars

\* ===================================================================
\* Properties
\* ===================================================================
Ptrs == 1 .. Len(all_jobs_)
InQueue(i) == i \in Range(job_queue_)
InActive(i) == i \in Range(active_jobs_)
InCompleted(i) == i \in Range(completed_jobs_)
InWaiting(i) == all_jobs_[i].status = "WAITING_DEPS" /\ ~InQueue(i)

\* some record carries job_id id and has status st
HasStatus(id, st) ==
    \E i \in Ptrs : all_jobs_[i].job_id = id /\ all_jobs_[i].status = st

\* every id in the dependencies of record i belongs to a COMPLETED record
AllDepsCompleted(i) ==
    \A d \in all_jobs_[i].dependencies : HasStatus(d, "COMPLETED")

\* ---- C1 ----------------------------------------------------------
\* C1: the records of all_jobs_ carry strictly increasing job_ids in the order
\* of all_jobs_ (so all are distinct), also two records of the same command.
C1_JobIdsStrictlyIncreasing ==
    \A i, j \in Ptrs : i < j => all_jobs_[i].job_id < all_jobs_[j].job_id

C1_Witness ==
    /\ Len(all_jobs_) = MaxJobs
    /\ \E i, j \in Ptrs :
          /\ i # j
          /\ all_jobs_[i].command = all_jobs_[j].command
          /\ all_jobs_[i].dependencies = {}
          /\ all_jobs_[j].dependencies # {}

\* ---- C2 ----------------------------------------------------------
LifecycleEdges ==
    {<<"WAITING_DEPS", "PENDING">>, <<"PENDING", "RUNNING">>,
     <<"RUNNING", "SUSPENDED">>, <<"SUSPENDED", "RUNNING">>,
     <<"RUNNING", "COMPLETED">>, <<"RUNNING", "FAILED">>,
     <<"RUNNING", "KILLED">>}

\* C2: every change of a record's status is an edge of the lifecycle state
\* machine.
C2_OnlyLifecycleEdges ==
    [][\A i \in Ptrs :
          all_jobs_'[i].status # all_jobs_[i].status
          => <<all_jobs_[i].status, all_jobs_'[i].status>> \in LifecycleEdges]_vars

\* ---- C3 ----------------------------------------------------------
SetsHolding(i) ==
    {k \in {"ready", "waiting", "running", "completed"} :
        \/ k = "ready" /\ InQueue(i)
        \/ k = "waiting" /\ InWaiting(i)
        \/ k = "running" /\ InActive(i)
        \/ k = "completed" /\ InCompleted(i)}

\* C3: every submitted job is in exactly one of the Ready Set, the waiting set,
\* the running set and the completed set.
C3_ExactlyOneSet == \A i \in Ptrs : Cardinality(SetsHolding(i)) = 1

\* ---- C4 ----------------------------------------------------------
\* C4: a step that takes a record out of WAITING_DEPS is taken only when every
\* id of its dependencies belongs to a COMPLETED record, before and after it.
C4_LeavesWaitingOnlyWhenAllCompleted ==
    [][\A i \in Ptrs :
          (all_jobs_[i].status = "WAITING_DEPS"
              /\ all_jobs_'[i].status # "WAITING_DEPS")
          => /\ AllDepsCompleted(i)
             /\ \A d \in all_jobs_[i].dependencies :
                   \E k \in Ptrs : /\ all_jobs_'[k].job_id = d
                                   /\ all_jobs_'[k].status = "COMPLETED"]_vars

\* a job of two dependencies was promoted and dispatched
C4_Witness ==
    \E i \in Ptrs :
        /\ Cardinality(all_jobs_[i].dependencies) = 2
        /\ i \notin {k \in Ptrs : all_jobs_[k].job_id \in all_jobs_[i].dependencies}
        /\ all_jobs_[i].status = "RUNNING"
        /\ log_file_[all_jobs_[i].job_id] = <<"SUBMITTED", "STARTED">>

\* ---- C5 ----------------------------------------------------------
\* C5: a submission with dependencies creates a record with the next id and
\* counts it in total_jobs_submitted; the record is WAITING_DEPS and not
\* queued when some listed id has no COMPLETED record at the call, and is
\* PENDING and queued otherwise.
C5_SubmitWithDeps ==
    [][Len(all_jobs_') # Len(all_jobs_)
       => LET n == Len(all_jobs_')
              new == all_jobs_'[n]
              unmet == \E d \in new.dependencies : ~HasStatus(d, "COMPLETED")
          IN /\ n = Len(all_jobs_) + 1
             /\ \A i \in Ptrs : all_jobs_[i].job_id # new.job_id
             /\ stats_'.total_jobs_submitted = stats_.total_jobs_submitted + 1
             /\ unmet => /\ new.status = "WAITING_DEPS"
                         /\ n \notin Range(job_queue_')
             /\ ~unmet => /\ new.status = "PENDING"
                          /\ n \in Range(job_queue_')]_vars

\* one submission with dependencies was queued at once (its dependency had
\* completed), another waits for an id that had no record at the call (its own)
C5_Witness ==
    \E i, j \in Ptrs :
        /\ all_jobs_[i].dependencies # {}
        /\ all_jobs_[i].status = "PENDING"
        /\ InQueue(i)
        /\ stats_.total_jobs_completed = 1
        /\ all_jobs_[j].status = "WAITING_DEPS"
        /\ all_jobs_[j].job_id \in all_jobs_[j].dependencies

\* ---- C6 ----------------------------------------------------------
\* a worker processes the completion of job c, whose status is COMPLETED
ProcessesCompleted(c) ==
    /\ InActive(c)
    /\ c \notin Range(active_jobs_')
    /\ all_jobs_[c].status = "COMPLETED"

\* every id in the dependencies of record i belongs to a COMPLETED record whose
\* completion a worker has processed
AllDepsProcessed(i) ==
    \A d \in all_jobs_[i].dependencies :
        \E k \in Ptrs : /\ all_jobs_[k].job_id = d
                        /\ all_jobs_[k].status = "COMPLETED"
                        /\ InCompleted(k)

\* C6: when a worker processes the completion of a COMPLETED job C, every
\* WAITING_DEPS record that lists C and has all dependencies COMPLETED becomes
\* PENDING and is in the Ready Set; so no record is WAITING_DEPS once the
\* completions of all its dependencies have been processed, in any order.
C6_PromotionOnCompletion ==
    /\ [][\A c \in Ptrs :
             ProcessesCompleted(c)
             => \A i \in Ptrs :
                   (/\ all_jobs_[i].status = "WAITING_DEPS"
                    /\ all_jobs_[c].job_id \in all_jobs_[i].dependencies
                    /\ AllDepsCompleted(i))
                   => /\ all_jobs_'[i].status = "PENDING"
                      /\ i \in Range(job_queue_')]_vars
    /\ [](\A i \in Ptrs :
             all_jobs_[i].status = "WAITING_DEPS" => ~AllDepsProcessed(i))

\* a job of two dependencies is in the Ready Set, and the dependency
\* submitted last finished first
C6_Witness ==
    \E i \in Ptrs :
        /\ Cardinality(all_jobs_[i].dependencies) = 2
        /\ all_jobs_[i].status = "PENDING"
        /\ InQueue(i)
        /\ Len(completed_jobs_) = 2
        /\ all_jobs_[completed_jobs_[1]].job_id > all_jobs_[completed_jobs_[2]].job_id
        /\ \A k \in 1 .. 2 :
              all_jobs_[completed_jobs_[k]].job_id \in all_jobs_[i].dependencies

\* ---- C7 ----------------------------------------------------------
\* C7: a status that is KILLED stays KILLED.
C7_KilledIsTerminal ==
    [][\A i \in Ptrs :
          all_jobs_[i].status = "KILLED" => all_jobs_'[i].status = "KILLED"]_vars

\* ---- C8 ----------------------------------------------------------
\* C8: kill(id) of a job that is not RUNNING returns false and changes neither
\* a status nor total_jobs_killed nor the log.
C8_KillOfNonRunningIsNoOp ==
    [][\A id \in JobIds :
          (kill_job(id) /\ ~HasStatus(id, "RUNNING"))
          => /\ ~kill_job_returns(id)
             /\ UNCHANGED <<all_jobs_, stats_, log_file_>>]_vars

\* ---- C9 ----------------------------------------------------------
\* a record of the active set carries job_id id and has status st
ActiveWithStatus(id, st) ==
    \E i \in Ptrs : /\ InActive(i)
                    /\ all_jobs_[i].job_id = id
                    /\ all_jobs_[i].status = st

\* C9: suspend(id) returns true exactly when the job is active and RUNNING, and
\* then writes SUSPENDED to that job and nothing else; resume(id) returns true
\* exactly when the job is active and SUSPENDED, and then writes RUNNING to that
\* job and nothing else; a call in any other case returns false and changes
\* nothing (a step of the call that changes something is a call that passed
\* its test).
C9_SuspendResume ==
    /\ [](\A id \in JobIds :
             /\ suspend_job_returns(id) <=> ActiveWithStatus(id, "RUNNING")
             /\ resume_job_returns(id) <=> ActiveWithStatus(id, "SUSPENDED"))
    /\ [][vars' # vars
          => /\ \A id \in JobIds :
                   /\ suspend_job_check(id)
                      => /\ ActiveWithStatus(id, "RUNNING")
                         /\ api_pc'.op = "suspend_job"
                         /\ all_jobs_[api_pc'.job].job_id = id
                         /\ InActive(api_pc'.job)
                         /\ UNCHANGED <<all_jobs_, job_queue_, active_jobs_,
                                        completed_jobs_, core_availability_,
                                        stats_, log_file_>>
                   /\ resume_job_check(id)
                      => /\ ActiveWithStatus(id, "SUSPENDED")
                         /\ api_pc'.op = "resume_job"
                         /\ all_jobs_[api_pc'.job].job_id = id
                         /\ InActive(api_pc'.job)
                         /\ UNCHANGED <<all_jobs_, job_queue_, active_jobs_,
                                        completed_jobs_, core_availability_,
                                        stats_, log_file_>>
             /\ (api_pc.op # "idle" /\ api_pc'.op = "idle")
                => /\ all_jobs_' = [all_jobs_ EXCEPT ![api_pc.job].status =
                                       IF api_pc.op = "suspend_job"
                                       THEN "SUSPENDED" ELSE "RUNNING"]
                   /\ UNCHANGED <<job_queue_, active_jobs_, completed_jobs_,
                                  core_availability_, stats_, log_file_>>]_vars

\* resume(id) has passed its test on a job that suspend(id) had suspended
C9_Witness ==
    /\ api_pc.op = "resume_job"
    /\ all_jobs_[api_pc.job].status = "SUSPENDED"
    /\ control_calls = 2

\* ---- C10 ---------------------------------------------------------
\* C10: change_priority(id, p) returns true exactly when a record with that id
\* exists and is PENDING, and then changes only that record's priority, to p;
\* a call in any other case returns false and changes nothing (a step of the
\* call that changes something is a call on a PENDING record).
C10_ChangePriority ==
    /\ [](\A id \in JobIds :
             change_job_priority_returns(id) <=> HasStatus(id, "PENDING"))
    /\ [][vars' # vars
          => \A id \in JobIds, p \in NewPriorities :
                change_job_priority(id, p)
                => /\ HasStatus(id, "PENDING")
                   /\ \A i \in Ptrs :
                         all_jobs_'[i] =
                            IF all_jobs_[i].job_id = id
                            THEN [all_jobs_[i] EXCEPT !.priority = p]
                            ELSE all_jobs_[i]
                   /\ UNCHANGED <<job_queue_, active_jobs_, completed_jobs_,
                                  core_availability_, stats_, log_file_,
                                  next_job_id_, worker_pc, worker_job,
                                  api_pc>>]_vars

\* a queued PENDING job carries a priority given by change_priority, and a
\* WAITING_DEPS job, which the call refuses, keeps the priority of its submission
C10_Witness ==
    \E i, j \in Ptrs :
        /\ all_jobs_[i].status = "PENDING"
        /\ InQueue(i)
        /\ all_jobs_[i].priority = CRITICAL
        /\ all_jobs_[j].status = "WAITING_DEPS"
        /\ all_jobs_[j].priority = MEDIUM

\* ---- C11 ---------------------------------------------------------
\* C11: a job whose status is RUNNING has assigned_core_id in [0, num_cores),
\* that slot of the core table is allocated, and no other RUNNING job has it.
C11_RunningHoldsItsCore ==
    \A i \in Ptrs :
        all_jobs_[i].status = "RUNNING"
        => /\ all_jobs_[i].assigned_core_id \in Cores
           /\ ~core_availability_[all_jobs_[i].assigned_core_id]
           /\ \A j \in Ptrs \ {i} :
                 all_jobs_[j].status = "RUNNING"
                 => all_jobs_[j].assigned_core_id # all_jobs_[i].assigned_core_id

\* ---- C12 ---------------------------------------------------------
RunningJobs == {i \in Ptrs : all_jobs_[i].status = "RUNNING"}
AllocatedCores == {c \in Cores : ~core_availability_[c]}

\* C12: the number of RUNNING jobs equals the number of allocated slots of the
\* core table, which is at most num_cores.
C12_RunningEqualsAllocated ==
    /\ Cardinality(RunningJobs) = Cardinality(AllocatedCores)
    /\ Cardinality(AllocatedCores) <= NumCores

\* ---- C14 ---------------------------------------------------------
\* C14: total_jobs_completed + total_jobs_failed + total_jobs_killed is at most
\* total_jobs_submitted.
C14_TerminalCountersWithinSubmitted ==
    stats_.total_jobs_completed + stats_.total_jobs_failed
        + stats_.total_jobs_killed <= stats_.total_jobs_submitted

\* ---- C15 ---------------------------------------------------------
\* the places of event in the log records of job_id id
LogPlaces(id, event) ==
    {k \in 1 .. Len(log_file_[id]) : log_file_[id][k] = event}

\* C15: a job whose status is COMPLETED, FAILED or KILLED has the record of
\* that event in the log, after a SUBMITTED record and after a STARTED record
\* of the same job_id.
C15_TerminalEventLogged ==
    \A i \in Ptrs :
        all_jobs_[i].status \in {"COMPLETED", "FAILED", "KILLED"}
        => \E k \in LogPlaces(all_jobs_[i].job_id, all_jobs_[i].status) :
              /\ \E a \in LogPlaces(all_jobs_[i].job_id, "SUBMITTED") : a < k
              /\ \E b \in LogPlaces(all_jobs_[i].job_id, "STARTED") : b < k

\* ---- C13 ---------------------------------------------------------
\* C13: the running set (active_jobs_) never holds more than
\* max_concurrent_jobs_ jobs.
C13_ActiveWithinMaxConcurrent == Len(active_jobs_) <= max_concurrent_jobs_

\* ---- C16 ---------------------------------------------------------
\* a worker takes a job from the Ready Set in this step
IsDequeue == Len(job_queue_') = Len(job_queue_) - 1
\* the job it takes
DequeuedJob == active_jobs_'[Len(active_jobs_')]

\* C16: under PRIORITY_FIRST every dequeue returns a job whose priority score
\* is maximal among the jobs of the Ready Set at that moment.
C16_DequeueMaximalScore ==
    [][(IsDequeue /\ current_policy_ = "PRIORITY_FIRST")
       => \A i \in Range(job_queue_) :
             calculate_priority_score(all_jobs_[i])
                <= calculate_priority_score(all_jobs_[DequeuedJob])]_vars

\* ---- C17 ---------------------------------------------------------
\* C17: under PRIORITY_FIRST, without change_priority calls, no dequeue returns
\* a job while a job of strictly higher priority rank is in the Ready Set.
C17_DequeueHighestRank ==
    [][(IsDequeue /\ current_policy_ = "PRIORITY_FIRST")
       => \A i \in Range(job_queue_) :
             all_jobs_[i].priority <= all_jobs_[DequeuedJob].priority]_vars

\* a CRITICAL job submitted after a LOW job that is still queued has been
\* dispatched, after earlier LOW jobs were dispatched and one of them ended
C17_Witness ==
    /\ current_policy_ = "PRIORITY_FIRST"
    /\ Len(completed_jobs_) >= 1
    /\ \E i, j \in Ptrs :
          /\ i < j
          /\ all_jobs_[i].priority = LOW
          /\ InQueue(i)
          /\ all_jobs_[j].priority = CRITICAL
          /\ InActive(j)
          /\ \A k \in Range(completed_jobs_) : all_jobs_[k].priority = LOW

\* ---- C18 ---------------------------------------------------------
\* C18: once the policy is SHORTEST_JOB_FIRST every dequeue returns a job whose
\* estimated runtime is minimal among the jobs of the Ready Set.
C18_DequeueShortestJob ==
    [][(IsDequeue /\ current_policy_ = "SHORTEST_JOB_FIRST")
       => \A i \in Range(job_queue_) :
             get_estimated_runtime(all_jobs_[DequeuedJob])
                <= get_estimated_runtime(all_jobs_[i])]_vars

\* ---- C19 ---------------------------------------------------------
\* C19: jobs of the same priority and the same score leave the Ready Set in
\* the order of their insertion (here the order of submission: every job is
\* pushed by the submission that creates it).
C19_DequeueFifoAmongEqual ==
    [][IsDequeue
       => \A i \in Range(job_queue_) :
             (/\ all_jobs_[i].priority = all_jobs_[DequeuedJob].priority
              /\ calculate_priority_score(all_jobs_[i])
                    = calculate_priority_score(all_jobs_[DequeuedJob]))
             => DequeuedJob <= i]_vars

\* ---- C20 ---------------------------------------------------------
\* C20: the completed set (completed_jobs_) never holds more entries than its
\* capacity.
C20_CompletedWithinCapacity == Len(completed_jobs_) <= max_completed

\* ---- C29 ---------------------------------------------------------
\* JobScheduler::get_system_stats, the value returned: a copy of stats_
get_system_stats_returns == stats_

\* the sum of memory_usage_mb over the records i .. Len(all_jobs_) that are RUNNING
RECURSIVE RunningMemoryFrom(_)
RunningMemoryFrom(i) ==
    IF i > Len(all_jobs_) THEN 0
    ELSE (IF all_jobs_[i].status = "RUNNING" THEN all_jobs_[i].memory_usage_mb ELSE 0)
         + RunningMemoryFrom(i + 1)

\* C29: at any time, get_system_stats() returns current_memory_usage_mb equal to
\* the sum of memory_usage_mb over the jobs that are RUNNING at that time.
C29_StatsMemoryIsRunningSum ==
    get_system_stats_returns.current_memory_usage_mb = RunningMemoryFrom(1)

\* ---- C30 ---------------------------------------------------------
\* C30: in every state, a job whose status is WAITING_DEPS has a dependency id
\* with no record or with a record that is not COMPLETED.
C30_WaitingHasIncompleteDependency ==
    \A i \in Ptrs :
        all_jobs_[i].status = "WAITING_DEPS" => ~AllDepsCompleted(i)

\* ---- C28 ---------------------------------------------------------
\* record i lists its own job_id among its dependencies
SelfDependent(i) == all_jobs_[i].job_id \in all_jobs_[i].dependencies

\* records i and j list each other's job_id among their dependencies
InTwoCycle(i) ==
    \E j \in Ptrs :
        /\ j # i
        /\ all_jobs_[j].job_id \in all_jobs_[i].dependencies
        /\ all_jobs_[i].job_id \in all_jobs_[j].dependencies

\* the step submits a job one of whose dependency ids has no record
SubmitsWithMissingDependency ==
    /\ Len(all_jobs_') = Len(all_jobs_) + 1
    /\ \E d \in all_jobs_'[Len(all_jobs_')].dependencies :
           \A i \in Ptrs : all_jobs_[i].job_id # d

\* C28: a job submitted with a dependency id that has no record gets a record
\* with status WAITING_DEPS and is not queued; a WAITING_DEPS job stays
\* WAITING_DEPS, out of the queue and out of the active set, over every step
\* after which one of its dependency ids has no COMPLETED record; a job that
\* depends on its own id, or two jobs that depend on each other, are
\* WAITING_DEPS in every state and never queued, active or completed.
C28_UnmetDependencyWaits ==
    /\ [](\A i \in Ptrs :
            SelfDependent(i) \/ InTwoCycle(i)
                => /\ all_jobs_[i].status = "WAITING_DEPS"
                   /\ ~InQueue(i) /\ ~InActive(i) /\ ~InCompleted(i))
    /\ [][vars' # vars =>
            /\ SubmitsWithMissingDependency
                 => /\ all_jobs_'[Len(all_jobs_')].status = "WAITING_DEPS"
                    /\ Len(all_jobs_') \notin Range(job_queue_')
            /\ \A i \in Ptrs :
                  /\ all_jobs_[i].status = "WAITING_DEPS"
                  /\ \E d \in all_jobs_[i].dependencies :
                         \A j \in 1 .. Len(all_jobs_') :
                             all_jobs_'[j].job_id = d
                                 => all_jobs_'[j].status # "COMPLETED"
                  => /\ all_jobs_'[i].status = "WAITING_DEPS"
                     /\ i \notin Range(job_queue_')
                     /\ i \notin Range(active_jobs_')]_vars

\* two jobs that depend on each other wait while a third job has completed and
\* every worker is back at its wait
C28_Witness ==
    /\ \E i \in Ptrs : InTwoCycle(i) /\ all_jobs_[i].status = "WAITING_DEPS"
    /\ \E k \in Ptrs : all_jobs_[k].status = "COMPLETED" /\ InCompleted(k)
    /\ \A w \in Workers : worker_pc[w] = "wait"
    /\ job_queue_ = <<>>

\* ---- C21 ---------------------------------------------------------
\* stop() has set running_ to false
StopFlagSet ==
    /\ ~running_
    /\ api_pc.op \in {"stop_notify_all", "stop_join", "stop_clear", "stop_returned"}

\* the step starts a child: one more worker has a child it waits for
StartsChild ==
    Cardinality({w \in Workers : worker_pc'[w] = "waitpid"})
        > Cardinality({w \in Workers : worker_pc[w] = "waitpid"})

\* C21: once stop() has set running_ to false, no step takes a job out of the
\* queue and no step starts a child.
C21_NoDequeueNoChildAfterStopFlag ==
    [][StopFlagSet => ~IsDequeue /\ ~StartsChild]_vars

\* ---- C22 ---------------------------------------------------------
\* C22: with every started child ending, a stop() that has set running_ to
\* false returns; when it has returned every worker has exited and the active
\* set is empty.
C22_StopTerminates ==
    /\ (api_pc.op = "stop_notify_all") ~> (api_pc.op = "stop_returned")
    /\ [](api_pc.op = "stop_returned"
            => /\ active_jobs_ = <<>>
               /\ \A w \in Workers : worker_pc[w] = "exited")

\* stop() has returned with a job brought to its end and a job left in the queue
C22_Witness ==
    /\ api_pc.op = "stop_returned"
    /\ completed_jobs_ # <<>>
    /\ job_queue_ # <<>>

\* ---- C23 ---------------------------------------------------------
\* the template with every occurrence of the literal $ARRAY_ID replaced by i
ExpectedCommand(command_template, i) ==
    concat([k \in 1 .. Len(command_template) |->
               IF command_template[k] = ARRAY_ID THEN to_string(i)
               ELSE command_template[k]])

\* C23: when submit_job_array(template, size, priority) returns, it has created
\* size records (none for size <= 0); task i has array_task_id i, type
\* ARRAY_JOB and as command the template with $ARRAY_ID replaced by i, and all
\* tasks carry the same array_job_id.
C23_ArrayExpansion ==
    submit_job_array_at_return
        => /\ Len(api_pc.jobs) = IF api_pc.array_size > 0 THEN api_pc.array_size ELSE 0
           /\ \A k \in 1 .. Len(api_pc.jobs) :
                 LET job == all_jobs_[api_pc.jobs[k]]
                 IN /\ job.array_task_id = k - 1
                    /\ job.type = "ARRAY_JOB"
                    /\ job.command = ExpectedCommand(api_pc.command_template, k - 1)
                    /\ job.array_job_id = all_jobs_[api_pc.jobs[1]].array_job_id

\* ---- C24 ---------------------------------------------------------
\* C24: when submit_job_array returns, whatever other threads have submitted
\* meanwhile, the array_job_id of every task of the call is the job_id of the
\* call's task 0.
C24_ArrayIdIsFirstTaskId ==
    submit_job_array_at_return
        => \A k \in 1 .. Len(api_pc.jobs) :
               all_jobs_[api_pc.jobs[k]].array_job_id
                   = all_jobs_[api_pc.jobs[1]].job_id

\* ---- C25 ---------------------------------------------------------
\* the script has a line that is neither blank nor starts with '#'
HasCommandLine(script) ==
    \E k \in 1 .. Len(script.lines) :
        ~script.lines[k].hash /\ script.lines[k].text # ""

\* that line, the first of them
CommandOf(script) ==
    LET ks == {k \in 1 .. Len(script.lines) :
                  ~script.lines[k].hash /\ script.lines[k].text # ""}
    IN script.lines[CHOOSE k \in ks : \A j \in ks : k <= j].text

NotANumber(chars) ==
    chars = <<>> \/ \E i \in 1 .. Len(chars) : ~IsDigit(chars[i])

\* a header of the script, above its first line without '#', gives a
\* MEMORY_LIMIT, RUNTIME_LIMIT, CORES or DEPENDENCIES value that is not a number
HasMalformedNumber(script) ==
    \E k \in 1 .. Len(script.lines) :
        /\ \A j \in 1 .. k : script.lines[j].hash
        /\ LET line == script.lines[k]
               value == trim_right(trim_left(line.value))
           IN \/ /\ line.key \in {"MEMORY_LIMIT", "RUNTIME_LIMIT", "CORES"}
                 /\ NotANumber(value)
              \/ /\ line.key = "DEPENDENCIES"
                 /\ \E n \in 1 .. Len(split(value)) :
                        NotANumber(trim_right(trim_left(split(value)[n])))

\* the failures of a script submission the specification lists
SubmissionFails(script) ==
    \/ ~script.openable
    \/ ~HasCommandLine(script)
    \/ HasMalformedNumber(script)

\* the step changes nothing of the scheduler: no id is taken, no record added
\* to all_jobs_ or to the queue, no counter and no log record written
SchedulerUnchanged ==
    UNCHANGED <<running_, next_job_id_, all_jobs_, job_queue_, active_jobs_,
                completed_jobs_, core_availability_, max_concurrent_jobs_,
                current_policy_, stats_, log_file_>>

C26_FirstCommandLineSubmitted ==
    [][vars' # vars =>
          \A script \in Scripts :
              /\ submit_job_script(script)
              /\ script.openable
              /\ HasCommandLine(script)
              /\ ~HasMalformedNumber(script)
              => /\ api_pc'.op = "parse_job_script"
                 /\ all_jobs_'[Len(all_jobs_')].command = CommandOf(script)]_vars

\* ---- C27 ---------------------------------------------------------
\* C27: while a caller holds the list a get_* call returned, the records it
\* observes through the list do not change.
C27_ReturnedListIsSnapshot ==
    [][api_pc.op = "show_jobs" /\ api_pc' = api_pc
          => observed(api_pc.jobs)' = observed(api_pc.jobs)]_vars

\* ---- C32 ---------------------------------------------------------
\* C32: in every state, for every WAITING_DEPS job W and every record D whose
\* job_id is a dependency of W and whose status is not COMPLETED, the
\* dependents of D contain the job_id of W.
C32_DependentsIndexMaintained ==
    \A w \in Ptrs :
        all_jobs_[w].status = "WAITING_DEPS"
            => \A d \in Ptrs :
                   /\ all_jobs_[d].job_id \in all_jobs_[w].dependencies
                   /\ all_jobs_[d].status # "COMPLETED"
                   => all_jobs_[w].job_id \in all_jobs_[d].dependents

\* ---- C34 ---------------------------------------------------------
\* record d has reached its final status, FAILED or KILLED: it has left the
\* active set, after which no code writes its status
FinallyFailedOrKilled(d) ==
    /\ all_jobs_[d].status \in {"FAILED", "KILLED"}
    /\ ~InActive(d)

\* C34: a job that lists a dependency whose final status is FAILED or KILLED is
\* WAITING_DEPS, is not queued, active or completed, and the log holds no
\* event for it but its submission.
C34_FailedDependencyBlocksForever ==
    \A w \in Ptrs, d \in Ptrs :
        /\ all_jobs_[d].job_id \in all_jobs_[w].dependencies
        /\ FinallyFailedOrKilled(d)
        => /\ all_jobs_[w].status = "WAITING_DEPS"
           /\ ~InQueue(w) /\ ~InActive(w) /\ ~InCompleted(w)
           /\ log_file_[all_jobs_[w].job_id] = <<"SUBMITTED">>

\* ---- C35 ---------------------------------------------------------
NoDuplicates(vec) ==
    \A a \in 1 .. Len(vec), b \in 1 .. Len(vec) : a # b => vec[a] # vec[b]

\* the STARTED records of the log that carry job_id id
StartedEvents(id) ==
    Cardinality({k \in 1 .. Len(log_file_[id]) : log_file_[id][k] = "STARTED"})

\* C35: no job is in the queue twice, held by two workers, twice in the active
\* or in the completed set, or has two STARTED events; and a job in the queue
\* has not been dispatched before (it is not active, not completed, held by no
\* worker and has no STARTED event).
C35_QueuedAndDispatchedOnce ==
    /\ NoDuplicates(job_queue_)
    /\ NoDuplicates(active_jobs_)
    /\ NoDuplicates(completed_jobs_)
    /\ \A w \in Workers, v \in Workers :
           w # v /\ worker_job[w] # 0 => worker_job[w] # worker_job[v]
    /\ \A i \in Ptrs :
           /\ StartedEvents(all_jobs_[i].job_id) <= 1
           /\ InQueue(i)
              => /\ ~InActive(i) /\ ~InCompleted(i)
                 /\ \A w \in Workers : worker_job[w] # i
                 /\ StartedEvents(all_jobs_[i].job_id) = 0

\* a job with two dependencies, both completed, has been dispatched and has
\* itself completed
C35_Witness ==
    \E i \in Ptrs :
        /\ Cardinality(all_jobs_[i].dependencies) = 2
        /\ \A d \in Ptrs :
               all_jobs_[d].job_id \in all_jobs_[i].dependencies => InCompleted(d)
        /\ InCompleted(i)
        /\ StartedEvents(all_jobs_[i].job_id) = 1

\* ---- C36 ---------------------------------------------------------
\* worker w is in execute_job between the return of assign_core and the call
\* of release_core
BetweenAssignAndRelease(w) ==
    worker_pc[w] \in {"log_started", "fork", "waitpid", "log_result", "release_core"}

\* C36: every job between its assign_core and its release_core holds a core
\* index in [0, num_cores) that is marked unavailable, and no two such jobs
\* hold the same index.
C36_CoreExclusive ==
    \A w \in Workers :
        BetweenAssignAndRelease(w)
            => LET core == all_jobs_[worker_job[w]].assigned_core_id
               IN /\ core \in Cores
                  /\ ~core_availability_[core]
                  /\ \A v \in Workers :
                         v # w /\ BetweenAssignAndRelease(v)
                             => all_jobs_[worker_job[v]].assigned_core_id # core

\* every worker holds a core
C36_Witness ==
    /\ \A w \in Workers : BetweenAssignAndRelease(w)
    /\ \A c \in Cores : ~core_availability_[c]

\* ---- C37 ---------------------------------------------------------
\* C37: in runs with priority changes of queued jobs, every dequeue returns a
\* job whose priority is at least that of every job left in the queue.
C37_DequeueAfterPriorityChange ==
    [][IsDequeue
          => \A i \in Range(job_queue_') :
                 all_jobs_'[i].priority <= all_jobs_'[DequeuedJob].priority]_vars

\* ---- C38 ---------------------------------------------------------
\* C38: a job that leaves the active set is put into the completed set by the
\* same step, with status COMPLETED, FAILED or KILLED.
C38_DispatchedJobReachesCompleted ==
    [][\A i \in Ptrs :
          InActive(i) /\ i \notin Range(active_jobs_')
              => /\ i \in Range(completed_jobs_')
                 /\ all_jobs_'[i].status \in {"COMPLETED", "FAILED", "KILLED"}]_vars


\* ---- C31 ---------------------------------------------------------
FreeCores == {c \in Cores : core_availability_[c]}

\* the k lowest indices of the set free, in increasing order
RECURSIVE LowestFree(_, _)
LowestFree(free, k) ==
    IF k = 0 \/ free = {} THEN <<>>
    ELSE LET lowest == CHOOSE c \in free : \A d \in free : c <= d
         IN <<lowest>> \o LowestFree(free \ {lowest}, k - 1)

\* C31: a call assign_multiple_cores(k) with at least k free cores returns the
\* k lowest free indices and marks exactly these unavailable; with fewer than
\* k free cores it returns no core and leaves the core table unchanged.
C31_AllocateAllOrNothing ==
    [][(api_pc = ApiIdle /\ api_pc'.op = "assign_multiple_cores")
          => IF Cardinality(FreeCores) >= api_pc'.count
             THEN /\ api_pc'.assigned_cores = LowestFree(FreeCores, api_pc'.count)
                  /\ core_availability_' =
                         [c \in Cores |-> core_availability_[c]
                                          /\ c \notin Range(api_pc'.assigned_cores)]
             ELSE /\ api_pc'.assigned_cores = <<>>
                  /\ core_availability_' = core_availability_]_vars


\* ---- C33 ---------------------------------------------------------
\* a worker is blocked in condition_.wait and no other worker is on its way to
\* the queue
WorkerBlockedNoneComing ==
    /\ \E w \in Workers : worker_pc[w] = "blocked"
    /\ \A w \in Workers : worker_pc[w] \notin {"wait", "condition_wait"}

\* C33: there is no state in which the scheduler runs, the queue is not empty,
\* fewer than max_concurrent_jobs_ jobs are active and a worker stays blocked
\* on condition_ while no worker is awake to take the job.
C33_NoBlockedWorkerWithReadyJob ==
    ~(/\ running_
      /\ job_queue_ # <<>>
      /\ Len(active_jobs_) < max_concurrent_jobs_
      /\ WorkerBlockedNoneComing)

\* ---- C39 ---------------------------------------------------------
\* C39: with the scheduler running, fair workers, children that exit and
\* finitely many submissions, every job in the queue is eventually popped by a
\* worker and reaches RUNNING.
C39_QueuedJobEventuallyRuns ==
    \A i \in 1 .. MaxWaitJobs :
        (i <= Len(all_jobs_) /\ InQueue(i))
            ~> (i <= Len(all_jobs_) /\ all_jobs_[i].status = "RUNNING")

\* a job that was queued by a promotion has reached RUNNING while another
\* job is in the queue and the other worker is blocked in the wait
C39_Witness ==
    /\ \E i \in Ptrs : all_jobs_[i].dependencies # {} /\ all_jobs_[i].status = "RUNNING"
    /\ \E i \in Ptrs : InQueue(i)
    /\ \E w \in Workers : worker_pc[w] = "blocked"


\* ---- C40 ---------------------------------------------------------
\* a thread that waits for mutex_ does not hold the mutex of the logger
LockOrder ==
    \A i \in Threads :
        wants(thread(i), "mutex_") => ~holds(thread(i), "Logger::mutex_")

\* no thread waits for a mutex it holds
NoRelock ==
    \A i \in Threads, m \in Mutexes : ~(wants(thread(i), m) /\ holds(thread(i), m))

\* no two threads each wait for a mutex the other holds
NoWaitCycle ==
    \A i \in Threads, j \in Threads, m \in Mutexes, n \in Mutexes :
        ~(/\ i # j
          /\ wants(thread(i), m) /\ holds(thread(j), m)
          /\ wants(thread(j), n) /\ holds(thread(i), n))

\* a thread that holds a mutex is not in waitpid, in a join or blocked on
\* condition_
HolderRuns ==
    \A i \in Threads, m \in Mutexes :
        holds(thread(i), m)
            => /\ thread(i).cv = "none"
               /\ next_op(thread(i))[1] \notin {"block", "none"}

\* C40: the mutexes are taken in the order mutex_ then Logger::mutex_ or the
\* logger mutex alone, no thread locks a mutex it holds, each mutex has at
\* most one holder, and no threads wait for each other's mutexes: a thread
\* that waits for a mutex waits for a holder that is running.
C40_DeadlockFree ==
    /\ LockOrder
    /\ NoRelock
    /\ NoWaitCycle
    /\ HolderRuns
    /\ \A m \in Mutexes : Cardinality({i \in Threads : holds(thread(i), m)}) <= 1

\* the front end holds both mutexes while one worker waits for mutex_ and
\* another for the mutex of the logger
C40_Witness ==
    /\ holds(api_pc, "mutex_") /\ holds(api_pc, "Logger::mutex_")
    /\ \E w \in Workers : wants(worker_pc[w], "mutex_")
    /\ \E w \in Workers : wants(worker_pc[w], "Logger::mutex_")
====
